---- MODULE Spec2Model ----
(***************************************************************************)
(* Model of the investigation scratchpad (src/agent/scratchpad.py), of the *)
(* finding extraction done by run_investigation and of the start of the    *)
(* program (src/agent/run_agent.py), and of the SQL and summarizer tools   *)
(* (src/tools/run_sql.py, src/tools/summarizer.py).                        *)
(*                                                                         *)
(* Python strings the code computes on character by character (importance  *)
(* levels, titles, descriptions, result texts) are sequences of one-       *)
(* character strings; strings the code only stores (action types, keys)    *)
(* are TLA+ strings.                                                       *)
(***************************************************************************)
EXTENDS Integers, Sequences, FiniteSets, TLC

VARIABLES
    scratchpad,   \* the Scratchpad object: actions, findings, context, start_time
    clock,        \* the wall clock read by datetime.datetime.now()
    calls,        \* history: the arguments of every log_action / log_finding / add_context call
    loaded,       \* the last from_json: the Scratchpad serialised, the document, the Scratchpad returned
    frame,        \* run_investigation: where it stands, its arguments and its local variables
    observed,     \* what the last call on the Scratchpad returned or printed, if anything
    file,         \* the file at the path given to save_to_file
    save,         \* save_to_file: where it stands, and what it has written and not yet flushed
    process,      \* the program run as a process: its environment, where it stands, how it ended
    threads       \* the callbacks of the agents run by one thread each: their calls and local variables

vars == <<scratchpad, clock, calls, loaded, frame, observed, file, save, process, threads>>

----------------------------------------------------------------------------
(* Bounds of the exploration *)

MaxOps == 3        \* calls made on one Scratchpad by its client
MaxJsonOps == 2    \* calls made before / between serialisations
MaxChunks == 3     \* pieces a result text of the crew is put together from

----------------------------------------------------------------------------
(* Characters and strings *)

UpperCase == <<"A","B","C","D","E","F","G","H","I","J","K","L","M",
               "N","O","P","Q","R","S","T","U","V","W","X","Y","Z">>
LowerCase == <<"a","b","c","d","e","f","g","h","i","j","k","l","m",
               "n","o","p","q","r","s","t","u","v","w","x","y","z">>

\* the lower-case letter of every upper-case letter
lower_table ==
    [c \in {UpperCase[i] : i \in DOMAIN UpperCase} |->
        LowerCase[CHOOSE i \in DOMAIN UpperCase : UpperCase[i] = c]]

\* str.lower() on one character
lower_char(c) == IF c \in DOMAIN lower_table THEN lower_table[c] ELSE c

\* str.lower()
lower(s) == [i \in DOMAIN s |-> lower_char(s[i])]

S_low      == <<"l","o","w">>
S_medium   == <<"m","e","d","i","u","m">>
S_high     == <<"h","i","g","h">>
S_critical == <<"c","r","i","t","i","c","a","l">>
S_HIGH     == <<"H","I","G","H">>
S_urgent   == <<"u","r","g","e","n","t">>
S_CTR_Drop == <<"C","T","R"," ","D","r","o","p">>
S_Spike    == <<"S","p","i","k","e">>
S_desc     == <<"5","0","%">>

S_finding  == <<"f","i","n","d","i","n","g">>
S_anomal   == <<"a","n","o","m","a","l">>
S_anomaly  == <<"a","n","o","m","a","l","y">>
S_cause    == <<"c","a","u","s","e">>
S_result   == <<"r","e","s","u","l","t">>
S_Finding_CTR_Drop ==
    <<"F","i","n","d","i","n","g",":"," ","C","T","R"," ","D","r","o","p">>
S_50_drop  == <<"5","0","%"," ","d","r","o","p">>
S_CAUSE    == <<"C","A","U","S","E">>
S_Newline  == <<"\n">>
S_Heading2 == <<"#","#"," ">>
S_Investigation_Results == <<"Investigation Results">>
S_Extracted_from_agent_output == <<"(Extracted from agent output)">>

Whitespace == {" ", "\n", "\t", "\r"}

\* s[from:]
Suffix(s, from) == SubSeq(s, from, Len(s))

\* str.startswith(prefix)
startswith(s, prefix) ==
    Len(s) >= Len(prefix) /\ SubSeq(s, 1, Len(prefix)) = prefix

\* str.startswith(tuple of prefixes)
startswith_any(s, prefixes) == \E prefix \in prefixes : startswith(s, prefix)

\* str.find(sub), counting from 1; 0 when sub does not occur
find(s, sub) ==
    LET at == {i \in 1..(Len(s) - Len(sub) + 1) : SubSeq(s, i, i + Len(sub) - 1) = sub}
    IN  IF at = {} THEN 0 ELSE CHOOSE i \in at : \A j \in at : i <= j

\* sub in s
contains(s, sub) == find(s, sub) # 0

\* str.split(sep)
RECURSIVE split(_, _)
split(s, sep) ==
    LET i == find(s, sep)
    IN  IF i = 0 THEN <<s>>
        ELSE <<SubSeq(s, 1, i - 1)>> \o split(Suffix(s, i + Len(sep)), sep)

RECURSIVE lstrip(_, _)
lstrip(s, chars) ==
    IF s # <<>> /\ Head(s) \in chars THEN lstrip(Tail(s), chars) ELSE s

RECURSIVE rstrip(_, _)
rstrip(s, chars) ==
    IF s # <<>> /\ s[Len(s)] \in chars THEN rstrip(SubSeq(s, 1, Len(s) - 1), chars) ELSE s

\* str.strip(chars)
strip_chars(s, chars) == rstrip(lstrip(s, chars), chars)

\* str.strip()
strip(s) == strip_chars(s, Whitespace)

\* sep.join(parts)
RECURSIVE join(_, _)
join(sep, parts) ==
    IF parts = <<>> THEN <<>>
    ELSE IF Len(parts) = 1 THEN parts[1]
    ELSE parts[1] \o sep \o join(sep, Tail(parts))

----------------------------------------------------------------------------
(* Time: datetime values, isoformat() and fromisoformat() *)

\* The successive readings of the wall clock: a datetime is seconds plus
\* microseconds.  isoformat() leaves the fraction out when it is zero.
Instants == << [sec |-> 7, us |-> 0], [sec |-> 7, us |-> 1] >>

\* datetime.isoformat(): "...:SS" or "...:SS.ffffff", as the list of its numbers
isoformat(d) == IF d.us = 0 THEN <<d.sec>> ELSE <<d.sec, d.us>>

\* fromisoformat dropping the fraction of the second
fromisoformat_whole_seconds(s) == [sec |-> s[1], us |-> 0]

\* datetime.fromisoformat()
fromisoformat(s) == [sec |-> s[1], us |-> IF Len(s) > 1 THEN s[2] ELSE 0]

\* (end - start).total_seconds(), as whole seconds and microseconds
total_seconds(end, start) == [sec |-> end.sec - start.sec, us |-> end.us - start.us]

now == Instants[clock]

----------------------------------------------------------------------------
(* Python values carried in details, evidence and context *)

\* A value is tagged with its Python type; repr is the text str() prints for
\* it (a string, like every Python string of the model, is a sequence).  A
\* list or tuple holds scalars, a dict holds items with scalar values.
PyScalar(kind, repr) == [kind |-> kind, repr |-> repr, items |-> <<>>]
PyList(items)  == [kind |-> "list",  repr |-> <<>>, items |-> items]
PyTuple(items) == [kind |-> "tuple", repr |-> <<>>, items |-> items]
PyDict(items)  == [kind |-> "dict",  repr |-> <<>>, items |-> items]
PyStr(text)    == PyScalar("str", text)

V_a     == PyStr(<<"a">>)
V_b     == PyStr(<<"b">>)
V_sql   == PyStr(<<"SELECT 1">>)
V_rows  == PyList(<<PyScalar("int", <<"12">>), PyScalar("NoneType", <<"None">>)>>)
V_date  == PyScalar("datetime", <<"2024-01-20 00:00:00">>)
V_pair  == PyTuple(<<PyScalar("int", <<"20">>), PyScalar("int", <<"21">>)>>)

\* Optional arguments: None, or a value
None == [given |-> FALSE]
Some(x) == [given |-> TRUE, value |-> x]

\* Python's  `arg or default`
or_default(arg, default) ==
    IF arg = None THEN default
    ELSE IF arg.value = <<>> THEN default ELSE arg.value

\* A dict is the sequence of its items in insertion order.
Item(k, v) == [key |-> k, value |-> v]
EmptyDict == <<>>

RECURSIVE dict_keys(_)
dict_keys(d) == IF d = <<>> THEN <<>> ELSE <<Head(d).key>> \o dict_keys(Tail(d))

HasKey(d, k) == \E i \in DOMAIN d : d[i].key = k

\* d[k] = v
dict_set(d, k, v) ==
    IF HasKey(d, k)
    THEN [i \in DOMAIN d |-> IF d[i].key = k THEN Item(k, v) ELSE d[i]]
    ELSE Append(d, Item(k, v))

\* d.get(k): the value wrapped in Some, or None
dict_get(d, k) ==
    IF HasKey(d, k)
    THEN Some(d[CHOOSE i \in DOMAIN d : d[i].key = k].value)
    ELSE None

----------------------------------------------------------------------------
(* The Scratchpad class *)

\* no from_json has returned yet
NoScratchpad == [exists |-> FALSE]

\* Scratchpad.__init__ at time t
Scratchpad_init(t) ==
    [actions |-> <<>>, findings |-> <<>>, context |-> EmptyDict, start_time |-> t]

\* log_action inserting the new entry at the front of the list
log_action_prepend(self, t, action_type, description, details) ==
    LET action == [timestamp   |-> isoformat(t),
                   type        |-> action_type,
                   description |-> description,
                   details     |-> or_default(details, EmptyDict)]
    IN  [self EXCEPT !.actions = <<action>> \o @]

\* log_action starting the list over with the new entry
log_action_restart(self, t, action_type, description, details) ==
    LET action == [timestamp   |-> isoformat(t),
                   type        |-> action_type,
                   description |-> description,
                   details     |-> or_default(details, EmptyDict)]
    IN  [self EXCEPT !.actions = <<action>>]

\* Scratchpad.log_action at time t
log_action(self, t, action_type, description, details) ==
    LET action == [timestamp   |-> isoformat(t),
                   type        |-> action_type,
                   description |-> description,
                   details     |-> or_default(details, EmptyDict)]
    IN  [self EXCEPT !.actions = Append(@, action)]

\* log_finding moving start_time to the time of the call
log_finding_restamp(self, t, title, description, importance, related_actions, evidence) ==
    LET finding == [timestamp       |-> isoformat(t),
                    title           |-> title,
                    description     |-> description,
                    importance      |-> importance,
                    related_actions |-> or_default(related_actions, <<>>),
                    evidence        |-> or_default(evidence, EmptyDict)]
    IN  [self EXCEPT !.findings = Append(@, finding), !.start_time = t]

\* log_finding keeping only the indices of actions that exist
log_finding_checked_indices(self, t, title, description, importance, related_actions, evidence) ==
    LET finding == [timestamp       |-> isoformat(t),
                    title           |-> title,
                    description     |-> description,
                    importance      |-> importance,
                    related_actions |->
                        SelectSeq(or_default(related_actions, <<>>),
                                  LAMBDA i : i >= 0 /\ i < Len(self.actions)),
                    evidence        |-> or_default(evidence, EmptyDict)]
    IN  [self EXCEPT !.findings = Append(@, finding)]

\* Scratchpad.log_finding at time t
log_finding(self, t, title, description, importance, related_actions, evidence) ==
    LET finding == [timestamp       |-> isoformat(t),
                    title           |-> title,
                    description     |-> description,
                    importance      |-> importance,
                    related_actions |-> or_default(related_actions, <<>>),
                    evidence        |-> or_default(evidence, EmptyDict)]
    IN  [self EXCEPT !.findings = Append(@, finding)]

\* add_context keeping the value a key already has
add_context_keep_first(self, key, value) ==
    IF HasKey(self.context, key) THEN self
    ELSE [self EXCEPT !.context = Append(@, Item(key, value))]

\* Scratchpad.add_context
add_context(self, key, value) ==
    [self EXCEPT !.context = dict_set(@, key, value)]

\* Scratchpad.get_action_history
get_action_history(self) == self.actions

\* the lookup defaulting to the level of "medium"
importance_levels_get_default_medium(name) ==
    CASE name = S_low      -> 0
      [] name = S_medium   -> 1
      [] name = S_high     -> 2
      [] name = S_critical -> 3
      [] OTHER             -> 1

\* importance_levels.get(name, 0)
importance_levels_get(name) ==
    CASE name = S_low      -> 0
      [] name = S_medium   -> 1
      [] name = S_high     -> 2
      [] name = S_critical -> 3
      [] OTHER             -> 0

\* the filter condition comparing with == instead of >=
meets_importance_exact(finding, min_level) ==
    importance_levels_get(lower(finding.importance)) = min_level

\* the condition of the list comprehension of get_findings
meets_importance(finding, min_level) ==
    importance_levels_get(lower(finding.importance)) >= min_level

RECURSIVE filter_findings(_, _)
filter_findings(fs, min_level) ==
    IF fs = <<>> THEN <<>>
    ELSE (IF meets_importance(Head(fs), min_level) THEN <<Head(fs)>> ELSE <<>>)
         \o filter_findings(Tail(fs), min_level)

\* get_findings looking the threshold up without lower()
get_findings_case_sensitive(self, min_importance) ==
    filter_findings(self.findings, importance_levels_get(min_importance))

\* Scratchpad.get_findings
get_findings(self, min_importance) ==
    filter_findings(self.findings, importance_levels_get(lower(min_importance)))

\* Scratchpad.get_context(key)
get_context(self, key) == dict_get(self.context, key)

\* the test of the summary comparing the importance as it was stored
is_high_importance_case_sensitive(f) == f.importance \in {S_high, S_critical}

\* f["importance"].lower() in ("high", "critical")
is_high_importance(f) == lower(f.importance) \in {S_high, S_critical}

RECURSIVE high_titles(_)
high_titles(fs) ==
    IF fs = <<>> THEN <<>>
    ELSE (IF is_high_importance(Head(fs)) THEN <<Head(fs).title>> ELSE <<>>)
         \o high_titles(Tail(fs))

\* get_summary with the two counts exchanged
get_summary_swapped(self, t) ==
    [start_time       |-> isoformat(self.start_time),
     end_time         |-> isoformat(t),
     duration_seconds |-> total_seconds(t, self.start_time),
     action_count     |-> Len(self.findings),
     finding_count    |-> Len(self.actions),
     context_keys     |-> dict_keys(self.context),
     high_importance_findings |-> high_titles(self.findings)]

\* Scratchpad.get_summary at time t
get_summary(self, t) ==
    [start_time       |-> isoformat(self.start_time),
     end_time         |-> isoformat(t),
     duration_seconds |-> total_seconds(t, self.start_time),
     action_count     |-> Len(self.actions),
     finding_count    |-> Len(self.findings),
     context_keys     |-> dict_keys(self.context),
     high_importance_findings |-> high_titles(self.findings)]

----------------------------------------------------------------------------
(* print_report: the text it prints, one entry per call of print() *)

RuleWidth == 60

\* "=" * 60
Rule == [i \in 1..RuleWidth |-> "="]

Digits == <<"0", "1", "2", "3", "4", "5", "6", "7", "8", "9">>

\* str(n) of a natural number, as an f-string formats it
RECURSIVE str_int(_)
str_int(n) ==
    IF n < 10 THEN <<Digits[n + 1]>>
    ELSE str_int(n \div 10) \o <<Digits[(n % 10) + 1]>>

\* f"{seconds:.2f}" of a duration that is not negative: the whole seconds
\* and the hundredths it rounds to
format_2f(d) ==
    LET hundredths == (d.sec * 1000000 + d.us + 5000) \div 10000
    IN  <<hundredths \div 100, hundredths % 100>>

\* datetime.fromisoformat(timestamp).strftime("%H:%M:%S"): the time of day
\* without its fraction
strftime_HMS(timestamp) == <<fromisoformat(timestamp).sec>>

\* A printed line: text, then a time or a number the line shows, then the
\* rest of the text.
Line(text, value, rest) == [text |-> text, value |-> value, rest |-> rest]
Text(text) == Line(text, <<>>, <<>>)

\* [f for f in self.findings if f["importance"].lower() == level]
findings_of_level(self, level) ==
    SelectSeq(self.findings, LAMBDA f : lower(f.importance) = level)

\* the loop printing "\n{i+1}. {title}" and "   {description}" per finding
titled_lines(fs) ==
    [k \in 1..(2 * Len(fs)) |->
        IF k % 2 = 1
        THEN Text(<<"\n">> \o str_int((k + 1) \div 2) \o <<". ">> \o fs[(k + 1) \div 2].title)
        ELSE Text(<<"   ">> \o fs[k \div 2].description)]

\* the loop printing "\n{i+1}. {title}" per finding
title_lines(fs) ==
    [k \in 1..Len(fs) |-> Text(<<"\n">> \o str_int(k) \o <<". ">> \o fs[k].title)]

\* the loop printing "{i+1}. [{action_time}] {type}: {description}" per action
action_lines(actions) ==
    [k \in 1..Len(actions) |->
        Line(str_int(k) \o <<". [">>,
             strftime_HMS(actions[k].timestamp),
             <<"] ", actions[k].type, ": ">> \o actions[k].description)]

L_Title       == Text(<<"## SALESIQ AGENT INVESTIGATION REPORT">>)
L_Summary     == Text(<<"\n", "## SUMMARY">>)
L_KeyFindings == Text(<<"\n", "## KEY FINDINGS">>)
L_Critical    == Text(<<"\n", "### CRITICAL FINDINGS">>)
L_High        == Text(<<"\n", "### HIGH IMPORTANCE FINDINGS">>)
L_NoneFound   == Text(<<"\n", "No high or critical findings identified.">>)
L_Other       == Text(<<"\n", "### OTHER FINDINGS">>)
L_ActionLog   == Text(<<"\n", "## ACTION LOG">>)

\* print_report listing the high findings above the critical ones
print_report_high_first(self, t) ==
    LET summary           == get_summary(self, t)
        critical_findings == findings_of_level(self, S_critical)
        high_findings     == findings_of_level(self, S_high)
        medium_findings   == findings_of_level(self, S_medium)
    IN  <<Text(<<"\n">> \o Rule), L_Title, Text(Rule),
          L_Summary,
          Line(<<"Start time: ">>, summary.start_time, <<>>),
          Line(<<"Duration: ">>, format_2f(summary.duration_seconds), <<" seconds">>),
          Text(<<"Actions taken: ">> \o str_int(summary.action_count)),
          Text(<<"Findings: ">> \o str_int(summary.finding_count)),
          L_KeyFindings>>
        \o (IF high_findings # <<>>
            THEN <<L_High>> \o titled_lines(high_findings) ELSE <<>>)
        \o (IF critical_findings # <<>>
            THEN <<L_Critical>> \o titled_lines(critical_findings) ELSE <<>>)
        \o (IF critical_findings = <<>> /\ high_findings = <<>>
            THEN <<L_NoneFound>> ELSE <<>>)
        \o (IF medium_findings # <<>>
            THEN <<L_Other>> \o title_lines(medium_findings) ELSE <<>>)
        \o <<L_ActionLog>> \o action_lines(self.actions)
        \o <<Text(<<"\n">> \o Rule)>>

\* Scratchpad.print_report at time t
print_report(self, t) ==
    LET summary           == get_summary(self, t)
        critical_findings == findings_of_level(self, S_critical)
        high_findings     == findings_of_level(self, S_high)
        medium_findings   == findings_of_level(self, S_medium)
    IN  <<Text(<<"\n">> \o Rule), L_Title, Text(Rule),
          L_Summary,
          Line(<<"Start time: ">>, summary.start_time, <<>>),
          Line(<<"Duration: ">>, format_2f(summary.duration_seconds), <<" seconds">>),
          Text(<<"Actions taken: ">> \o str_int(summary.action_count)),
          Text(<<"Findings: ">> \o str_int(summary.finding_count)),
          L_KeyFindings>>
        \o (IF critical_findings # <<>>
            THEN <<L_Critical>> \o titled_lines(critical_findings) ELSE <<>>)
        \o (IF high_findings # <<>>
            THEN <<L_High>> \o titled_lines(high_findings) ELSE <<>>)
        \o (IF critical_findings = <<>> /\ high_findings = <<>>
            THEN <<L_NoneFound>> ELSE <<>>)
        \o (IF medium_findings # <<>>
            THEN <<L_Other>> \o title_lines(medium_findings) ELSE <<>>)
        \o <<L_ActionLog>> \o action_lines(self.actions)
        \o <<Text(<<"\n">> \o Rule)>>

----------------------------------------------------------------------------
(* JSON: json.dumps(..., default=str) and json.loads *)

JsonValue(type, text, elements) == [type |-> type, text |-> text, elements |-> elements]

\* json.dumps writing a str with its quotes as part of the text
dumps_scalar_requoting(v) ==
    CASE v.kind = "str"      -> JsonValue("string", <<"'">> \o v.repr \o <<"'">>, <<>>)
      [] v.kind = "int"      -> JsonValue("number", v.repr, <<>>)
      [] v.kind = "bool"     -> JsonValue("boolean", v.repr, <<>>)
      [] v.kind = "NoneType" -> JsonValue("null", v.repr, <<>>)
      [] OTHER               -> JsonValue("string", v.repr, <<>>)

\* What json.dumps writes for a value that holds no container: the JSON
\* types for str, int, bool and None, and default=str for every other type.
dumps_scalar(v) ==
    CASE v.kind = "str"      -> JsonValue("string", v.repr, <<>>)
      [] v.kind = "int"      -> JsonValue("number", v.repr, <<>>)
      [] v.kind = "bool"     -> JsonValue("boolean", v.repr, <<>>)
      [] v.kind = "NoneType" -> JsonValue("null", v.repr, <<>>)
      [] OTHER               -> JsonValue("string", v.repr, <<>>)

\* json.dumps of a value: lists and tuples are both written as arrays, a
\* dict with string keys as an object
dumps_value(v) ==
    CASE v.kind \in {"list", "tuple"} ->
            JsonValue("array", <<>>, [i \in DOMAIN v.items |-> dumps_scalar(v.items[i])])
      [] v.kind = "dict" ->
            JsonValue("object", <<>>,
                [i \in DOMAIN v.items |->
                    [key |-> v.items[i].key, value |-> dumps_scalar(v.items[i].value)]])
      [] OTHER -> dumps_scalar(v)

\* json.loads of a JSON scalar (the numbers of the model are integers)
loads_scalar(j) ==
    CASE j.type = "string"  -> PyScalar("str", j.text)
      [] j.type = "number"  -> PyScalar("int", j.text)
      [] j.type = "boolean" -> PyScalar("bool", j.text)
      [] j.type = "null"    -> PyScalar("NoneType", j.text)

\* json.loads of a JSON value: an array is read as a list, an object as a dict
loads_value(j) ==
    CASE j.type = "array" ->
            PyList([i \in DOMAIN j.elements |-> loads_scalar(j.elements[i])])
      [] j.type = "object" ->
            PyDict([i \in DOMAIN j.elements |->
                [key |-> j.elements[i].key, value |-> loads_scalar(j.elements[i].value)]])
      [] OTHER -> loads_scalar(j)

\* a dict with string keys is written as an object, member by member
dumps_dict(d) == [i \in DOMAIN d |-> Item(d[i].key, dumps_value(d[i].value))]
loads_object(o) == [i \in DOMAIN o |-> Item(o[i].key, loads_value(o[i].value))]

dumps_action(a) == [a EXCEPT !.details = dumps_dict(@)]
loads_action(a) == [a EXCEPT !.details = loads_object(@)]
dumps_finding(f) == [f EXCEPT !.evidence = dumps_dict(@)]
loads_finding(f) == [f EXCEPT !.evidence = loads_object(@)]

\* to_dict writing the time of the call as start_time
to_dict_now_start(self, t) ==
    [actions    |-> self.actions,
     findings   |-> self.findings,
     context    |-> self.context,
     start_time |-> isoformat(t),
     summary    |-> get_summary(self, t)]

\* Scratchpad.to_dict at time t
to_dict(self, t) ==
    [actions    |-> self.actions,
     findings   |-> self.findings,
     context    |-> self.context,
     start_time |-> isoformat(self.start_time),
     summary    |-> get_summary(self, t)]

\* json.dumps(d, default=str) of the dictionary built by to_dict
json_dumps(d) ==
    [actions    |-> [i \in DOMAIN d.actions |-> dumps_action(d.actions[i])],
     findings   |-> [i \in DOMAIN d.findings |-> dumps_finding(d.findings[i])],
     context    |-> dumps_dict(d.context),
     start_time |-> d.start_time,
     summary    |-> d.summary]

\* Scratchpad.to_json at time t
to_json(self, t) == json_dumps(to_dict(self, t))

\* The text to_json returns, as the sequence of the members of the object in
\* the order to_dict builds them: what f.write() is given.
SnapshotKeys == <<"actions", "findings", "context", "start_time", "summary">>
json_text(doc) == [i \in DOMAIN SnapshotKeys |-> Item(SnapshotKeys[i], doc[SnapshotKeys[i]])]

\* The file of save_to_file: whether it exists, and the part of a text it holds.
NoFile == [exists |-> FALSE, data |-> <<>>]

\* open(filename, "w"): the file is created, or cut to length zero
open_w(f) == [exists |-> TRUE, data |-> <<>>]

\* save_to_file is not running
NotSaving == [pc |-> "idle", buffer |-> <<>>, previous |-> NoFile]

\* json.loads of a document holding an object: the members that are present
json_loads(doc) ==
    [k \in DOMAIN doc |->
        CASE k = "actions"  -> [i \in DOMAIN doc[k] |-> loads_action(doc[k][i])]
          [] k = "findings" -> [i \in DOMAIN doc[k] |-> loads_finding(doc[k][i])]
          [] k = "context"  -> loads_object(doc[k])
          [] OTHER          -> doc[k]]

\* data.get(key, default)
data_get(data, key, default) == IF key \in DOMAIN data THEN data[key] ELSE default

\* from_json leaving start_time at the time of the call
from_json_fresh_start(json_str, t) ==
    LET data == json_loads(json_str)
        fresh == Scratchpad_init(t)
    IN  [fresh EXCEPT !.actions  = data_get(data, "actions", <<>>),
                      !.findings = data_get(data, "findings", <<>>),
                      !.context  = data_get(data, "context", EmptyDict)]

\* from_json taking start_time from the summary when there is one
from_json_summary_start(json_str, t) ==
    LET data == json_loads(json_str)
        fresh == Scratchpad_init(t)
        restored == [fresh EXCEPT !.actions  = data_get(data, "actions", <<>>),
                                  !.findings = data_get(data, "findings", <<>>),
                                  !.context  = data_get(data, "context", EmptyDict)]
        start_time_str ==
            IF "summary" \in DOMAIN data THEN data["summary"].start_time
            ELSE data_get(data, "start_time", <<>>)
    IN  IF start_time_str # <<>>
        THEN [restored EXCEPT !.start_time = fromisoformat(start_time_str)]
        ELSE restored

\* Scratchpad.from_json at time t
from_json(json_str, t) ==
    LET data == json_loads(json_str)
        fresh == Scratchpad_init(t)
        restored == [fresh EXCEPT !.actions  = data_get(data, "actions", <<>>),
                                  !.findings = data_get(data, "findings", <<>>),
                                  !.context  = data_get(data, "context", EmptyDict)]
        start_time_str == data_get(data, "start_time", <<>>)
    IN  IF start_time_str # <<>>
        THEN [restored EXCEPT !.start_time = fromisoformat(start_time_str)]
        ELSE restored

\* How a call ends: it returns a value or raises an exception of some class.
Returned(value) == [raised |-> "none", value |-> value]
Raised(class)   == [raised |-> class]

\* The texts from_json is given: text that is not JSON, or the JSON text of
\* a value of some type; for an object, its members.
NotJson        == [syntax |-> "invalid", type |-> "none", members |-> <<>>]
JsonOf(type)   == [syntax |-> "valid", type |-> type, members |-> <<>>]
JsonObject(ms) == [syntax |-> "valid", type |-> "object", members |-> ms]

\* the classmethod Scratchpad.from_json called at time t on any text:
\* json.loads raises on text that is not JSON, and data.get is an attribute
\* only a dict has
Scratchpad_from_json(text, t) ==
    IF text.syntax = "invalid" THEN Raised("JSONDecodeError")
    ELSE IF text.type # "object" THEN Raised("AttributeError")
    ELSE Returned(from_json(text.members, t))

\* The last call returned None and printed nothing.
NoOutput == [op |-> "none"]

----------------------------------------------------------------------------
(* A call on the Scratchpad together with its entry in the call history *)

NoCalls == [actions |-> <<>>, findings |-> <<>>, context |-> <<>>]

call_log_action(p, t, action_type, description, details) ==
    [pad   |-> log_action(p.pad, t, action_type, description, details),
     calls |-> [p.calls EXCEPT !.actions =
                   Append(@, [action_type |-> action_type,
                              description |-> description,
                              details |-> details])]]

call_log_finding(p, t, title, description, importance, related_actions, evidence) ==
    [pad   |-> log_finding(p.pad, t, title, description, importance,
                           related_actions, evidence),
     calls |-> [p.calls EXCEPT !.findings =
                   Append(@, [title |-> title,
                              description |-> description,
                              importance |-> importance,
                              related_actions |-> related_actions,
                              evidence |-> evidence])]]

call_add_context(p, key, value) ==
    [pad   |-> add_context(p.pad, key, value),
     calls |-> [p.calls EXCEPT !.context = Append(@, [key |-> key, value |-> value])]]

----------------------------------------------------------------------------
(* The calls a client makes on one Scratchpad *)

ActionArgs ==
    {[action_type |-> ty, description |-> <<"ran">>, details |-> None] :
        ty \in {"sql_query", "schema_lookup"}}
    \cup {[action_type |-> "sql_query", description |-> <<"ran">>, details |-> Some(d)] :
            d \in {<<Item("query", V_sql), Item("rows", V_rows)>>,
                   <<Item("at", V_date)>>}}

FindingArgs ==
    {[title |-> S_CTR_Drop, description |-> S_desc, importance |-> imp,
      related_actions |-> None, evidence |-> None] :
        imp \in {S_critical, S_low}}
    \cup {[title |-> S_Spike, description |-> S_desc, importance |-> imp,
           related_actions |-> None, evidence |-> None] :
            imp \in {S_medium, S_high, S_HIGH, S_urgent}}
    \cup {[title |-> S_Spike, description |-> S_desc, importance |-> S_medium,
           related_actions |-> Some(<<-1, 0, 7>>), evidence |-> Some(e)] :
            e \in {<<Item("days", V_rows)>>, <<Item("days", V_pair)>>}}

ContextArgs ==
    {[key |-> "k", value |-> v] : v \in {V_a, V_b}}
    \cup {[key |-> "campaign", value |-> v] : v \in {V_a, V_pair}}

OpCount == Len(calls.actions) + Len(calls.findings) + Len(calls.context)

\* run_investigation has not been called
IdleFrame ==
    [pc |-> "idle", query |-> <<>>, context |-> None, verbose |-> FALSE,
     agent_step |-> 0, result |-> <<>>, extraction_completed |-> FALSE,
     findings_before |-> 0, fault |-> FALSE]

\* the program has not been started
NotLaunched ==
    [pc |-> "none", env |-> {}, reported |-> <<>>, traceback |-> <<>>,
     exited |-> FALSE, exit_code |-> 0, work |-> {}]

\* no callback is running
NoThreads == [started |-> FALSE]

Init ==
    /\ clock \in DOMAIN Instants
    /\ scratchpad = Scratchpad_init(Instants[clock])
    /\ calls = NoCalls
    /\ loaded = NoScratchpad
    /\ frame = IdleFrame
    /\ observed = NoOutput
    /\ file = NoFile
    /\ save = NotSaving
    /\ process = NotLaunched
    /\ threads = NoThreads

\* time passes
Tick ==
    /\ clock < Len(Instants)
    /\ clock' = clock + 1
    /\ UNCHANGED <<scratchpad, calls, loaded, frame, observed, file, save, process, threads>>

Here == [pad |-> scratchpad, calls |-> calls]

Becomes(p) == scratchpad' = p.pad /\ calls' = p.calls

\* the client is between two calls: save_to_file is not running
Idle == save.pc = "idle"

LogActionFrom(args, bound) ==
    /\ Idle
    /\ OpCount < bound
    /\ \E a \in args :
        Becomes(call_log_action(Here, now, a.action_type, a.description, a.details))
    /\ observed' = NoOutput
    /\ UNCHANGED <<clock, loaded, frame, file, save, process, threads>>

LogFindingFrom(args, bound) ==
    /\ Idle
    /\ OpCount < bound
    /\ \E f \in args :
        Becomes(call_log_finding(Here, now, f.title, f.description, f.importance,
                                 f.related_actions, f.evidence))
    /\ observed' = NoOutput
    /\ UNCHANGED <<clock, loaded, frame, file, save, process, threads>>

AddContextFrom(args, bound) ==
    /\ Idle
    /\ OpCount < bound
    /\ \E c \in args : Becomes(call_add_context(Here, c.key, c.value))
    /\ observed' = NoOutput
    /\ UNCHANGED <<clock, loaded, frame, file, save, process, threads>>

LogAction(bound) == LogActionFrom(ActionArgs, bound)

LogFinding(bound) == LogFindingFrom(FindingArgs, bound)

AddContext(bound) == AddContextFrom(ContextArgs, bound)

\* T = Scratchpad.from_json(S.to_json())
RoundTrip ==
    /\ loaded' = [exists   |-> TRUE,
                  source   |-> scratchpad,
                  document |-> to_json(scratchpad, now),
                  result   |-> from_json(to_json(scratchpad, now), now),
                  trips    |-> 1]
    /\ UNCHANGED <<scratchpad, clock, calls, frame, observed, file, save, process, threads>>

\* Scratchpad.from_json(T.to_json()) for the T of a first round trip
RoundTripAgain ==
    /\ loaded.exists
    /\ loaded.trips = 1
    /\ loaded' = [exists   |-> TRUE,
                  source   |-> loaded.result,
                  document |-> to_json(loaded.result, now),
                  result   |-> from_json(to_json(loaded.result, now), now),
                  trips    |-> 2]
    /\ UNCHANGED <<scratchpad, clock, calls, frame, observed, file, save, process, threads>>

Next ==
    \/ Tick
    \/ LogAction(MaxOps)
    \/ LogFinding(MaxOps)
    \/ AddContext(MaxOps)

Spec == Init /\ [][Next]_vars

NextJson ==
    \/ Tick
    \/ LogAction(MaxJsonOps)
    \/ LogFinding(MaxJsonOps)
    \/ AddContext(MaxJsonOps)
    \/ RoundTrip
    \/ RoundTripAgain

SpecJson == Init /\ [][NextJson]_vars

----------------------------------------------------------------------------
(* Queries, the report and the snapshot file *)

MaxReportOps == 3  \* calls made on the Scratchpad a report is printed of
MaxFileOps == 2    \* calls made on the Scratchpad that is saved to a file
MaxLoadOps == 2    \* calls made on the Scratchpad whose snapshot texts are loaded

\* the calls made before a report
ReportActionArgs == {a \in ActionArgs : a.details = None}
ReportFindingArgs ==
    {f \in FindingArgs :
        \/ f.importance \in {S_critical, S_low, S_high, S_HIGH}
        \/ f.evidence = Some(<<Item("days", V_rows)>>)}

\* the calls made before a snapshot is written or read
FewActionArgs ==
    {a \in ActionArgs : a.details = Some(<<Item("query", V_sql), Item("rows", V_rows)>>)}
FewFindingArgs == {f \in FindingArgs : f.importance = S_critical}
FewContextArgs == {c \in ContextArgs : c.key = "k" /\ c.value = V_a}

\* the call op(arg) made now returned value
Observe(op, arg, value) ==
    observed' = [op |-> op, arg |-> arg, at |-> now, value |-> value]

GetActionHistory ==
    /\ Idle
    /\ Observe("get_action_history", <<>>, get_action_history(scratchpad))
    /\ UNCHANGED <<scratchpad, clock, calls, loaded, frame, file, save, process, threads>>

GetFindings ==
    /\ Idle
    /\ \E min_importance \in {S_low, S_medium, S_high, S_critical} :
        Observe("get_findings", min_importance, get_findings(scratchpad, min_importance))
    /\ UNCHANGED <<scratchpad, clock, calls, loaded, frame, file, save, process, threads>>

\* get_context(key), and get_context() returning the whole mapping
GetContext ==
    /\ Idle
    /\ \/ Observe("get_context", Some("k"), get_context(scratchpad, "k"))
       \/ Observe("get_context", None, Some(scratchpad.context))
    /\ UNCHANGED <<scratchpad, clock, calls, loaded, frame, file, save, process, threads>>

GetSummary ==
    /\ Idle
    /\ Observe("get_summary", <<>>, get_summary(scratchpad, now))
    /\ UNCHANGED <<scratchpad, clock, calls, loaded, frame, file, save, process, threads>>

ToDict ==
    /\ Idle
    /\ Observe("to_dict", <<>>, to_dict(scratchpad, now))
    /\ UNCHANGED <<scratchpad, clock, calls, loaded, frame, file, save, process, threads>>

ToJson ==
    /\ Idle
    /\ Observe("to_json", <<>>, to_json(scratchpad, now))
    /\ UNCHANGED <<scratchpad, clock, calls, loaded, frame, file, save, process, threads>>

PrintReport ==
    /\ Idle
    /\ Observe("print_report", <<>>, print_report(scratchpad, now))
    /\ UNCHANGED <<scratchpad, clock, calls, loaded, frame, file, save, process, threads>>

NextReport ==
    \/ Tick
    \/ LogActionFrom(ReportActionArgs, MaxReportOps)
    \/ LogFindingFrom(ReportFindingArgs, MaxReportOps)
    \/ GetFindings
    \/ GetSummary
    \/ ToJson
    \/ PrintReport

SpecReport == Init /\ [][NextReport]_vars

(* save_to_file, step by step: a crash can come between any two steps *)

\* with open(filename, "w") as f: the file is cut to length zero
SaveOpen ==
    /\ Idle
    /\ save' = [pc |-> "opened", buffer |-> <<>>, previous |-> file]
    /\ file' = open_w(file)
    /\ UNCHANGED <<scratchpad, clock, calls, loaded, frame, observed, process, threads>>

\* f.write(self.to_json()): the text is handed to the buffered writer
SaveWrite ==
    /\ save.pc = "opened"
    /\ save' = [save EXCEPT !.pc = "written", !.buffer = json_text(to_json(scratchpad, now))]
    /\ UNCHANGED <<scratchpad, clock, calls, loaded, frame, observed, file, process, threads>>

\* the writer passes a further part of a text larger than its buffer on to the file
SaveFlush ==
    /\ save.pc = "written"
    /\ \E n \in (Len(file.data) + 1)..Len(save.buffer) :
        file' = [file EXCEPT !.data = SubSeq(save.buffer, 1, n)]
    /\ UNCHANGED <<scratchpad, clock, calls, loaded, frame, observed, save, process, threads>>

\* the with block ends: the rest is flushed and the file closed
SaveClose ==
    /\ save.pc = "written"
    /\ file' = [file EXCEPT !.data = save.buffer]
    /\ save' = NotSaving
    /\ UNCHANGED <<scratchpad, clock, calls, loaded, frame, observed, process, threads>>

\* the process dies inside save_to_file: what was not flushed is lost
Crash ==
    /\ save.pc \in {"opened", "written"}
    /\ save' = [save EXCEPT !.pc = "crashed"]
    /\ UNCHANGED <<scratchpad, clock, calls, loaded, frame, observed, file, process, threads>>

NextFile ==
    \/ Tick
    \/ LogActionFrom(FewActionArgs, MaxFileOps)
    \/ LogFindingFrom(FewFindingArgs, MaxFileOps)
    \/ AddContextFrom(FewContextArgs, MaxFileOps)
    \/ GetActionHistory
    \/ GetFindings
    \/ GetContext
    \/ GetSummary
    \/ PrintReport
    \/ ToDict
    \/ ToJson
    \/ SaveOpen
    \/ SaveWrite
    \/ SaveFlush
    \/ SaveClose
    \/ Crash

SpecFile == Init /\ [][NextFile]_vars

(* from_json on the texts a caller can hand it *)

\* an object without some of its members
Without(doc, keys) == [k \in DOMAIN doc \ keys |-> doc[k]]

\* a "summary" member that does not describe the rest of the object
OtherSummary ==
    [start_time       |-> <<9>>,
     end_time         |-> <<9, 9>>,
     duration_seconds |-> [sec |-> 9, us |-> 0],
     action_count     |-> 9,
     finding_count    |-> 9,
     context_keys     |-> <<"other">>,
     high_importance_findings |-> << <<"other">> >>]

DroppedKeys ==
    {{}, {"actions"}, {"findings"}, {"context"}, {"start_time"},
     {"findings", "start_time"},
     {"actions", "findings", "context", "start_time"}}

\* the objects got from a snapshot by leaving members out and by removing
\* or replacing its summary
ObjectVariants(doc) ==
    LET kept == {Without(doc, keys) : keys \in DroppedKeys}
    IN  kept \cup {Without(d, {"summary"}) : d \in kept}
             \cup {[d EXCEPT !["summary"] = OtherSummary] : d \in kept}

LoadTexts(doc) ==
    {NotJson, JsonOf("array"), JsonOf("number"), JsonOf("string"), JsonOf("null")}
    \cup {JsonObject(members) : members \in ObjectVariants(doc)}

\* Scratchpad.from_json(text)
Load ==
    /\ Idle
    /\ \E text \in LoadTexts(to_json(scratchpad, now)) :
        loaded' = [exists  |-> TRUE,
                   text    |-> text,
                   at      |-> now,
                   outcome |-> Scratchpad_from_json(text, now)]
    /\ UNCHANGED <<scratchpad, clock, calls, frame, observed, file, save, process, threads>>

NextLoad ==
    \/ Tick
    \/ LogActionFrom(FewActionArgs, MaxLoadOps)
    \/ LogFindingFrom(FewFindingArgs, MaxLoadOps)
    \/ AddContextFrom(FewContextArgs, MaxLoadOps)
    \/ Load

SpecLoad == Init /\ [][NextLoad]_vars

----------------------------------------------------------------------------
(* run_investigation *)

ResultPreviewLen == 200
AgentPreviewLen == 100

\* result[:n] + "..." if len(result) > n else result
preview(result, n) ==
    IF Len(result) > n THEN SubSeq(result, 1, n) \o <<".", ".", ".">> ELSE result

\* the roles of the crew's agents, in the order of its sequential process
AgentRoles == << <<"Data Analyst">>, <<"Business Analyst">> >>

\* for key, value in context.items(): scratchpad.add_context(key, value)
RECURSIVE add_context_items(_, _)
add_context_items(p, items) ==
    IF items = <<>> THEN p
    ELSE add_context_items(call_add_context(p, Head(items).key, Head(items).value),
                           Tail(items))

\* the lines of an agent's output that on_agent_end logs as findings
is_heading_line(line) ==
    /\ startswith_any(strip(line), {<<"#">>, <<"#", "#">>, <<"#", "#", "#">>})
    /\ Len(line) > 2

\* the loop over the lines in on_agent_end
RECURSIVE log_heading_lines(_, _, _)
log_heading_lines(p, t, lines) ==
    IF lines = <<>> THEN p
    ELSE log_heading_lines(
            IF is_heading_line(Head(lines))
            THEN call_log_finding(p, t, strip(strip_chars(Head(lines), {"#"})),
                                  S_Extracted_from_agent_output, S_medium, None, None)
            ELSE p,
            t, Tail(lines))

\* on_agent_end scanning the lines of every output
on_agent_end_ungated(p, t, role, result) ==
    log_heading_lines(
        call_log_action(p, t, "agent_end",
            <<"Agent ">> \o role \o <<" completed work">>,
            Some(<<Item("agent", PyStr(role)),
                   Item("result_preview", PyStr(preview(result, AgentPreviewLen)))>>)),
        t, split(result, S_Newline))

\* the hook on_agent_end
on_agent_end(p, t, role, result) ==
    LET logged == call_log_action(p, t, "agent_end",
                      <<"Agent ">> \o role \o <<" completed work">>,
                      Some(<<Item("agent", PyStr(role)),
                             Item("result_preview", PyStr(preview(result, AgentPreviewLen)))>>))
    IN  IF contains(lower(result), S_finding) \/ contains(lower(result), S_anomaly)
        THEN log_heading_lines(logged, t, split(result, S_Newline))
        ELSE logged

\* on_agent_start logging the start of the investigation once more
on_agent_start_as_investigation_start(p, t, role) ==
    call_log_action(p, t, "investigation_start",
        <<"Agent ">> \o role \o <<" starting work">>,
        Some(<<Item("agent", PyStr(role))>>))

\* the hook on_agent_start
on_agent_start(p, t, role) ==
    call_log_action(p, t, "agent_start",
        <<"Agent ">> \o role \o <<" starting work">>,
        Some(<<Item("agent", PyStr(role))>>))

\* section.lower().startswith(("finding", "anomal", "cause", "result"))
section_matches(section) ==
    startswith_any(lower(section), {S_finding, S_anomal, S_cause, S_result})

\* title = lines[0].strip()
section_title(section) == strip(split(section, S_Newline)[1])

\* description = "\n".join(lines[1:]).strip()
section_description(section) ==
    strip(join(S_Newline, Tail(split(section, S_Newline))))

\* the loop over the sections in the try block
RECURSIVE extract_sections(_, _, _)
extract_sections(p, t, sections) ==
    IF sections = <<>> THEN p
    ELSE extract_sections(
            IF section_matches(Head(sections))
            THEN call_log_finding(p, t, section_title(Head(sections)),
                                  section_description(Head(sections)), S_high, None, None)
            ELSE p,
            t, Tail(sections))

\* sections = result.split("\n## ")
result_sections(result) == split(result, S_Newline \o S_Heading2)

\* the fallback also skipped when the result is empty
needs_fallback_nonempty(extraction_completed, result) ==
    ~extraction_completed /\ result # <<>>

\* the fallback added whatever the section pass found
needs_fallback_always(extraction_completed, result) == TRUE

\* if not extraction_completed
needs_fallback(extraction_completed, result) == ~extraction_completed

\* the fallback finding describing the trimmed result
fallback_description_stripped(result) == strip(result)

\* description=result of the fallback finding
fallback_description(result) == result

(* The arguments of run_investigation and what the crew returns *)

Queries == { <<"Investigate CTR drop">> }

\* key, value = pair.split("=", 1)
split_once(pair, sep) ==
    LET i == find(pair, sep)
    IN  <<SubSeq(pair, 1, i - 1), Suffix(pair, i + Len(sep))>>

\* a key of the context, a text of one piece, as the key of a dict
key_piece(text) == IF text = <<>> THEN "" ELSE text[1]

\* the loop over the pairs in parse_context
RECURSIVE parse_pairs(_, _)
parse_pairs(context, pairs) ==
    IF pairs = <<>> THEN context
    ELSE parse_pairs(
            IF contains(Head(pairs), <<"=">>)
            THEN LET kv == split_once(Head(pairs), <<"=">>)
                 IN  dict_set(context, key_piece(strip(kv[1])), PyStr(strip(kv[2])))
            ELSE context,
            Tail(pairs))

\* parse_context
parse_context(context_str) ==
    IF context_str = <<>> THEN EmptyDict
    ELSE parse_pairs(EmptyDict, split(context_str, <<",">>))

\* context = parse_context(args.context) if args.context else None
main_context(arg) ==
    IF arg = None THEN None
    ELSE IF arg.value = <<>> THEN None
    ELSE Some(parse_context(arg.value))

\* the texts given as --context
ContextStrings ==
    { <<"campaign", "=", "5">>,
      <<"query", "=", "other", ",", " ", "region", " ", "=", "EU", ",", "x">> }

Contexts == {main_context(c) : c \in {None} \cup {Some(text) : text \in ContextStrings}}

\* the intermediate outputs of an agent
AgentOutputs ==
    { <<"#", " ">> \o S_finding \o S_Newline \o <<"#">> \o S_Newline \o <<" ", "#", "x">>,
      S_Heading2 \o S_CAUSE }

\* the pieces result texts are put together from
Chunks ==
    { S_Newline \o S_Heading2,
      S_Heading2,
      S_Finding_CTR_Drop \o S_Newline,
      S_CAUSE \o <<" ">>,
      <<" ">> \o S_50_drop \o <<" ">> }

RECURSIVE TextsOf(_)
TextsOf(n) ==
    IF n = 0 THEN { <<>> }
    ELSE TextsOf(n - 1) \cup {t \o c : t \in TextsOf(n - 1), c \in Chunks}

ResultTexts == TextsOf(MaxChunks)

\* lines 114-126: the Scratchpad is created, the query and the context are
\* recorded and the start is logged
RunStart ==
    /\ frame.pc = "idle"
    /\ \E query \in Queries, context \in Contexts, verbose \in BOOLEAN :
        LET created  == [pad |-> Scratchpad_init(now), calls |-> NoCalls]
            recorded == add_context_items(
                            call_add_context(created, "query", PyStr(query)),
                            or_default(context, EmptyDict))
            started  == call_log_action(recorded, now, "investigation_start",
                            <<"Starting investigation: ">> \o query,
                            Some(<<Item("context", PyDict(or_default(context, EmptyDict)))>>))
        IN  /\ Becomes(started)
            /\ frame' = [frame EXCEPT !.pc = "kickoff", !.query = query,
                                      !.context = context, !.verbose = verbose]
    /\ UNCHANGED <<clock, loaded, observed, file, save, process, threads>>

\* crew.kickoff() runs the next agent: the hook registered when verbose is called
AgentStart ==
    /\ frame.pc = "kickoff"
    /\ frame.verbose
    /\ frame.agent_step < 2 * Len(AgentRoles)
    /\ frame.agent_step % 2 = 0
    /\ Becomes(on_agent_start(Here, now, AgentRoles[(frame.agent_step \div 2) + 1]))
    /\ frame' = [frame EXCEPT !.agent_step = @ + 1]
    /\ UNCHANGED <<clock, loaded, observed, file, save, process, threads>>

\* the running agent ends with some output: the hook registered when verbose is called
AgentEnd ==
    /\ frame.pc = "kickoff"
    /\ frame.verbose
    /\ frame.agent_step % 2 = 1
    /\ \E output \in AgentOutputs :
        Becomes(on_agent_end(Here, now, AgentRoles[(frame.agent_step \div 2) + 1], output))
    /\ frame' = [frame EXCEPT !.agent_step = @ + 1]
    /\ UNCHANGED <<clock, loaded, observed, file, save, process, threads>>

\* line 169: crew.kickoff() returns the final text
KickoffReturnFrom(texts) ==
    /\ frame.pc = "kickoff"
    /\ frame.verbose => frame.agent_step = 2 * Len(AgentRoles)
    /\ \E result \in texts :
        frame' = [frame EXCEPT !.pc = "returned", !.result = result]
    /\ UNCHANGED <<scratchpad, clock, calls, loaded, observed, file, save, process, threads>>

KickoffReturn == KickoffReturnFrom(ResultTexts)

\* lines 171-179: the completion is logged
LogCompletion ==
    /\ frame.pc = "returned"
    /\ Becomes(call_log_action(Here, now, "investigation_complete",
                   <<"Investigation completed">>,
                   Some(<<Item("result_preview",
                               PyStr(preview(frame.result, ResultPreviewLen)))>>)))
    /\ frame' = [frame EXCEPT !.pc = "extract", !.extraction_completed = FALSE,
                              !.findings_before = Len(scratchpad.findings)]
    /\ UNCHANGED <<clock, loaded, observed, file, save, process, threads>>

\* lines 180-196: the section pass
ExtractSections ==
    /\ frame.pc = "extract"
    /\ LET sections == result_sections(frame.result)
       IN  /\ Becomes(extract_sections(Here, now, sections))
           /\ frame' = [frame EXCEPT
                  !.pc = "fallback",
                  !.extraction_completed =
                      \E i \in DOMAIN sections : section_matches(sections[i])]
    /\ UNCHANGED <<clock, loaded, observed, file, save, process, threads>>

\* the section pass losing the findings it had logged when it is cut short
extract_sections_rolled_back(p, t, sections, k) ==
    [pad |-> [p.pad EXCEPT !.findings = <<>>], calls |-> p.calls]

\* the section pass cut short by an exception raised after k sections
extract_sections_until(p, t, sections, k) ==
    extract_sections(p, t, SubSeq(sections, 1, k))

\* lines 180-196: an exception is raised in the try block, by the split or
\* while a section is handled, and the handler at 195-196 prints it
ExtractSectionsFault ==
    /\ frame.pc = "extract"
    /\ LET sections == result_sections(frame.result)
       IN  \E k \in 0..(Len(sections) - 1) :
            /\ Becomes(extract_sections_until(Here, now, sections, k))
            /\ frame' = [frame EXCEPT
                   !.pc = "fallback",
                   !.fault = TRUE,
                   !.extraction_completed =
                       \E i \in 1..k : section_matches(sections[i])]
    /\ UNCHANGED <<clock, loaded, observed, file, save, process, threads>>

\* lines 198-206: the fallback finding, and the return
Fallback ==
    /\ frame.pc = "fallback"
    /\ IF needs_fallback(frame.extraction_completed, frame.result)
       THEN Becomes(call_log_finding(Here, now, S_Investigation_Results,
                        fallback_description(frame.result), S_medium, None, None))
       ELSE UNCHANGED <<scratchpad, calls>>
    /\ frame' = [frame EXCEPT !.pc = "done"]
    /\ UNCHANGED <<clock, loaded, observed, file, save, process, threads>>

NextRun ==
    \/ Tick
    \/ RunStart
    \/ AgentStart
    \/ AgentEnd
    \/ KickoffReturn
    \/ LogCompletion
    \/ ExtractSections
    \/ Fallback

SpecRun == Init /\ [][NextRun]_vars

MaxFaultChunks == 2  \* pieces of a result text whose section pass can fail

NextFault ==
    \/ Tick
    \/ RunStart
    \/ AgentStart
    \/ AgentEnd
    \/ KickoffReturnFrom(TextsOf(MaxFaultChunks))
    \/ LogCompletion
    \/ ExtractSections
    \/ ExtractSectionsFault
    \/ Fallback

SpecFault == Init /\ [][NextFault]_vars

----------------------------------------------------------------------------
(* The callbacks of the agents, each agent run by a thread of its own *)

\* the log_action and log_finding calls a callback made, in the order of its code
hook_calls(made) ==
    [i \in DOMAIN made.calls.actions |-> [op |-> "log_action", args |-> made.calls.actions[i]]]
    \o [i \in DOMAIN made.calls.findings |->
           [op |-> "log_finding", args |-> made.calls.findings[i]]]

\* the calls of the thread of an agent: on_agent_start, then on_agent_end
\* with the output of the agent
agent_calls(role, output) ==
    LET blank == [pad |-> Scratchpad_init(Instants[1]), calls |-> NoCalls]
    IN  hook_calls(on_agent_start(blank, Instants[1], role))
        \o hook_calls(on_agent_end(blank, Instants[1], role, output))

\* scratchpad.py:31-36 and 58-65: the dict a call builds with the timestamp it read
entry_of(call, t) ==
    IF call.op = "log_action"
    THEN log_action(Scratchpad_init(t), t, call.args.action_type,
                    call.args.description, call.args.details).actions[1]
    ELSE log_finding(Scratchpad_init(t), t, call.args.title, call.args.description,
                     call.args.importance, call.args.related_actions,
                     call.args.evidence).findings[1]

\* an append that writes into the place of the last entry
list_append_overwriting(list, x) ==
    IF list = <<>> THEN <<x>> ELSE [list EXCEPT ![Len(list)] = x]

\* list.append(x): one step of the interpreter, which no other thread interleaves
list_append(list, x) == Append(list, x)

\* crew.kickoff() runs the agents in parallel: each agent's callbacks are
\* called by a thread of its own
StartCallbacks ==
    /\ frame.pc = "kickoff"
    /\ frame.verbose
    /\ ~ threads.started
    /\ \E outputs \in [DOMAIN AgentRoles -> AgentOutputs] :
        threads' = [started |-> TRUE,
                    before  |-> [actions |-> scratchpad.actions,
                                 findings |-> scratchpad.findings],
                    workers |-> [i \in DOMAIN AgentRoles |->
                                    [todo    |-> agent_calls(AgentRoles[i], outputs[i]),
                                     pending |-> None,
                                     done    |-> <<>>]]]
    /\ UNCHANGED <<scratchpad, clock, calls, loaded, frame, observed, file, save, process>>

\* scratchpad.py:30 and 57: timestamp = datetime.datetime.now()
ThreadStamp ==
    /\ threads.started
    /\ \E i \in DOMAIN threads.workers :
        /\ threads.workers[i].todo # <<>>
        /\ threads.workers[i].pending = None
        /\ threads' = [threads EXCEPT !.workers[i].pending = Some(now)]
    /\ UNCHANGED <<scratchpad, clock, calls, loaded, frame, observed, file, save, process>>

\* scratchpad.py:31-37 and 58-66: the entry is built and appended
ThreadAppend ==
    /\ threads.started
    /\ \E i \in DOMAIN threads.workers :
        LET worker == threads.workers[i]
            call   == Head(worker.todo)
            entry  == entry_of(call, worker.pending.value)
            after  == IF call.op = "log_action"
                      THEN [scratchpad EXCEPT !.actions = list_append(@, entry)]
                      ELSE [scratchpad EXCEPT !.findings = list_append(@, entry)]
        IN  /\ worker.pending # None
            /\ scratchpad' = after
            /\ calls' = IF call.op = "log_action"
                        THEN [calls EXCEPT !.actions = Append(@, call.args)]
                        ELSE [calls EXCEPT !.findings = Append(@, call.args)]
            /\ threads' = [threads EXCEPT !.workers[i] =
                   [todo    |-> Tail(worker.todo),
                    pending |-> None,
                    done    |-> Append(worker.done,
                                  [op    |-> call.op,
                                   entry |-> entry,
                                   index |-> IF call.op = "log_action"
                                             THEN Len(after.actions)
                                             ELSE Len(after.findings)])]]
    /\ UNCHANGED <<clock, loaded, frame, observed, file, save, process>>

NextThreads ==
    \/ Tick
    \/ RunStart
    \/ StartCallbacks
    \/ ThreadStamp
    \/ ThreadAppend

SpecThreads == Init /\ [][NextThreads]_vars

----------------------------------------------------------------------------
(* The program from its start to the call of run_investigation *)

\* required_vars of validate_environment
RequiredVars ==
    <<"GEMINI_API_KEY", "DB_NAME", "DB_USER", "DB_PASSWORD", "DB_HOST", "DB_PORT">>

\* the variables os.getenv() finds no value, or an empty one, for
missing_vars(env) == SelectSeq(RequiredVars, LAMBDA var : var \notin env)

\* sys.exit(code), or the exit of the interpreter on an uncaught exception
Exit(code) == [process EXCEPT !.pc = "exited", !.exited = TRUE, !.exit_code = code]

\* python -m agent.run_agent is started; env holds the variables that have a
\* value that is not empty, in the environment or in the .env file
Launch ==
    /\ process.pc = "none"
    /\ \E env \in SUBSET {RequiredVars[i] : i \in DOMAIN RequiredVars} :
        process' = [process EXCEPT !.pc = "import", !.env = env]
    /\ UNCHANGED <<scratchpad, clock, calls, loaded, frame, observed, file, save, threads>>

\* run_agent.py:12 imports agent.config, which imports tools.summarizer
\* (config.py:16): summarizer.py:17-19 raises ValueError at import when
\* GEMINI_API_KEY has no value; with a value, summarizer.py:22 and
\* config.py:22-23 configure the generation library
ImportModules ==
    /\ process.pc = "import"
    /\ process' =
        IF "GEMINI_API_KEY" \notin process.env
        THEN [Exit(1) EXCEPT !.traceback =
                 <<"ValueError: GEMINI_API_KEY not found in environment variables">>]
        ELSE [process EXCEPT !.pc = "main", !.work = @ \cup {"configure"}]
    /\ UNCHANGED <<scratchpad, clock, calls, loaded, frame, observed, file, save, threads>>

\* main, lines 211-216: validate_environment prints the variables that are
\* missing, and main exits with code 1 when there is one
ValidateEnvironment ==
    /\ process.pc = "main"
    /\ process' =
        IF missing_vars(process.env) # <<>>
        THEN [Exit(1) EXCEPT !.reported = missing_vars(process.env)]
        ELSE [process EXCEPT !.pc = "parsed"]
    /\ UNCHANGED <<scratchpad, clock, calls, loaded, frame, observed, file, save, threads>>

\* main, lines 222-229: --test-connection connects to the database and exits
TestConnection ==
    /\ process.pc = "parsed"
    /\ \E connected \in BOOLEAN :
        process' = [Exit(IF connected THEN 0 ELSE 1) EXCEPT !.work = @ \cup {"database"}]
    /\ UNCHANGED <<scratchpad, clock, calls, loaded, frame, observed, file, save, threads>>

\* main, lines 232-235: no query was given
MissingQuery ==
    /\ process.pc = "parsed"
    /\ process' = Exit(1)
    /\ UNCHANGED <<scratchpad, clock, calls, loaded, frame, observed, file, save, threads>>

\* main, lines 240-291: run_investigation creates the crew, whose tools
\* connect to the database, and runs it; an exception ends the process with
\* code 1
Investigate ==
    /\ process.pc = "parsed"
    /\ \E raised \in BOOLEAN :
        process' = [Exit(IF raised THEN 1 ELSE 0) EXCEPT
                        !.work = @ \cup {"crew", "database", "investigation"}]
    /\ UNCHANGED <<scratchpad, clock, calls, loaded, frame, observed, file, save, threads>>

NextMain ==
    \/ Launch
    \/ ImportModules
    \/ ValidateEnvironment
    \/ TestConnection
    \/ MissingQuery
    \/ Investigate

SpecMain == Init /\ [][NextMain]_vars

----------------------------------------------------------------------------
(* SQLTool: src/tools/run_sql.py *)

PreviewRows == 10

\* a cell of a row: an integer or a text
Num(n) == [kind |-> "int", n |-> n, text |-> <<>>]
Str(t) == [kind |-> "str", n |-> 0, text |-> t]

\* execute_query raising an exception, and returning what fetchall() gave:
\* rows that have _fields, or plain tuples
DbRaises(message) == [raises |-> TRUE, message |-> message, fields |-> None, rows |-> <<>>]
DbRows(fields, rows) == [raises |-> FALSE, message |-> <<>>, fields |-> fields, rows |-> rows]

\* a call raised an exception e of some class with the text str(e)
RaisedWith(class, message) == [raised |-> class, message |-> message]

Last(s) == s[Len(s)]

\* lines 48-51: the column names read off the text of the query
infer_columns(query) ==
    LET after == split(lower(query), <<"s","e","l","e","c","t">>)
    IN  IF Len(after) < 2
        THEN RaisedWith("IndexError", <<"list index out of range">>)
        ELSE LET column_part == strip(split(after[2], <<"f","r","o","m">>)[1])
                 named == split(column_part, <<",">>)
             IN  Returned([i \in DOMAIN named |->
                     Last(split(Last(split(strip(named[i]), <<" ">>)), <<".">>))])

\* lines 39-54: the names of the columns
result_columns(query, results) ==
    IF results.fields # None THEN results.fields.value
    ELSE LET inferred == infer_columns(query)
         IN  IF inferred.raised = "none" THEN inferred.value
             ELSE [i \in DOMAIN results.rows[1] |-> <<"column_">> \o str_int(i - 1)]

\* pd.DataFrame(data, columns=columns)
DataFrame(data, columns) ==
    IF \E i \in DOMAIN data : Len(data[i]) # Len(columns)
    THEN RaisedWith("ValueError",
             str_int(Len(columns)) \o <<" columns passed, passed data had ">>
                 \o str_int(Len(data[1])) \o <<" columns">>)
    ELSE Returned([columns |-> columns, rows |-> data])

RECURSIVE Sum(_)
Sum(values) == IF values = <<>> THEN 0 ELSE Head(values) + Sum(Tail(values))

\* min, max, mean and median of a column of integers; the last two as fractions
column_statistics(values) ==
    LET n == Len(values)
        sorted == SortSeq(values, LAMBDA a, b : a < b)
    IN  [min    |-> sorted[1],
         max    |-> sorted[n],
         mean   |-> [num |-> Sum(values), den |-> n],
         median |-> IF n % 2 = 1 THEN [num |-> sorted[(n + 1) \div 2], den |-> 1]
                    ELSE [num |-> sorted[n \div 2] + sorted[(n \div 2) + 1], den |-> 2]]

\* lines 62-69: the statistics of the numeric columns, in the order of the columns
statistics(df) ==
    LET column(j) == [i \in DOMAIN df.rows |-> df.rows[i][j]]
        numeric == SelectSeq([j \in DOMAIN df.columns |-> j],
                             LAMBDA j : \A i \in DOMAIN df.rows : df.rows[i][j].kind = "int")
    IN  [k \in DOMAIN numeric |->
            Item(df.columns[numeric[k]],
                 column_statistics([i \in DOMAIN df.rows |-> column(numeric[k])[i].n]))]

cell_text(cell) == IF cell.kind = "int" THEN str_int(cell.n) ELSE cell.text

\* df.head(10).to_markdown(index=False), which needs the package tabulate:
\* one line of names, a rule, and a line per row (the padding of the cells
\* to the width of their column is left out)
to_markdown(df, tabulate) ==
    IF ~ tabulate
    THEN RaisedWith("ImportError", <<"Missing optional dependency 'tabulate'.">>)
    ELSE LET head == SubSeq(df.rows, 1, IF Len(df.rows) < PreviewRows
                                        THEN Len(df.rows) ELSE PreviewRows)
             line(cells) == <<"| ">> \o join(<<" | ">>, cells) \o <<" |">>
         IN  Returned(join(S_Newline,
                 <<line(df.columns), line([j \in DOMAIN df.columns |-> <<"---">>])>>
                 \o [i \in DOMAIN head |->
                        line([j \in DOMAIN head[i] |-> cell_text(head[i][j])])]))

\* df.to_dict(orient='records')
to_records(df) ==
    [i \in DOMAIN df.rows |-> [j \in DOMAIN df.columns |-> Item(df.columns[j], df.rows[i][j])]]

\* lines 72-82: the preview is made and the result put together
success_result(df, made) ==
    IF made.raised # "none" THEN made
    ELSE Returned([success    |-> TRUE,
                   row_count  |-> Len(df.rows),
                   columns    |-> df.columns,
                   preview    |-> made.value,
                   data       |-> to_records(df),
                   statistics |-> statistics(df)])

\* lines 59-82: what follows the construction of the DataFrame
describe_rows(made_df, tabulate) ==
    IF made_df.raised # "none" THEN made_df
    ELSE success_result(made_df.value, to_markdown(made_df.value, tabulate))

\* lines 33-89: the body of the try block of SQLTool.run
run_body(query, results, tabulate) ==
    IF results.raises THEN RaisedWith("DatabaseError", results.message)
    ELSE IF results.rows = <<>>
    THEN Returned([success |-> TRUE, row_count |-> 0,
                   message |-> <<"Query executed successfully, but no results were returned.">>])
    ELSE describe_rows(DataFrame(results.rows, result_columns(query, results)), tabulate)

\* lines 91-97: except Exception as e
except_Exception(attempt, query) ==
    IF attempt.raised = "none" THEN attempt
    ELSE Returned([success |-> FALSE, error |-> attempt.message, query |-> query])

\* SQLTool.run without its except clause
SQLTool_run_unguarded(query, results, tabulate) == run_body(query, results, tabulate)

\* SQLTool.run
SQLTool_run(query, results, tabulate) ==
    except_Exception(run_body(query, results, tabulate), query)

\* f"{x:.4f}" of a fraction that is not negative
format_4f(x) ==
    LET scaled == x.num * 10000
        q == scaled \div x.den
        r == scaled % x.den
        rounded == IF 2 * r > x.den \/ (2 * r = x.den /\ q % 2 = 1) THEN q + 1 ELSE q
        decimals == rounded % 10000
    IN  str_int(rounded \div 10000) \o <<".">>
        \o <<Digits[(decimals \div 1000) + 1], Digits[((decimals \div 100) % 10) + 1],
             Digits[((decimals \div 10) % 10) + 1], Digits[(decimals % 10) + 1]>>

\* lines 125-126: one line per column that has statistics
statistics_line(stat) ==
    <<"\n- **">> \o stat.key
    \o <<"**: min=">> \o format_4f([num |-> stat.value.min, den |-> 1])
    \o <<", max=">> \o format_4f([num |-> stat.value.max, den |-> 1])
    \o <<", mean=">> \o format_4f(stat.value.mean)
    \o <<", median=">> \o format_4f(stat.value.median)

\* lines 112-128: the text made of the result of run; "(x)" stands for the
\* cross mark the text of an error begins with
format_result(call) ==
    IF call.raised # "none" THEN call
    ELSE IF ~ call.value.success
    THEN Returned(<<"(x) Query error: ">> \o call.value.error)
    ELSE IF call.value.row_count = 0
    THEN Returned(<<"Query executed successfully, but no results were returned.">>)
    ELSE Returned(<<"Query returned ">> \o str_int(call.value.row_count) \o <<" rows\n\n">>
                  \o call.value.preview
                  \o (IF call.value.statistics # <<>>
                      THEN <<"\n\n**Basic Statistics:**\n">>
                           \o join(<<>>, [k \in DOMAIN call.value.statistics |->
                                              statistics_line(call.value.statistics[k])])
                      ELSE <<>>))

\* SQLTool.run_and_format
SQLTool_run_and_format(query, results, tabulate) ==
    format_result(SQLTool_run(query, results, tabulate))

(* The queries, and what the database answers *)

SqlQueries ==
    { <<"S","E","L","E","C","T"," ","d","a","y",","," ","t",".","c","l","i","c","k","s"," ","F","R","O","M"," ","t">>,
      <<"S","E","L","E","C","T"," ","*"," ","F","R","O","M"," ","t">>,
      <<"U","P","D","A","T","E"," ","t"," ","S","E","T"," ","x"," ","="," ","1">> }

RowsOfOne == << <<Str(<<"mon">>), Num(40)>> >>
RowsOfTwo == << <<Str(<<"mon">>), Num(40)>>, <<Str(<<"tue">>), Num(10)>> >>

DbResults ==
    {DbRaises(<<"connection refused">>), DbRaises(<<"syntax error at or near FORM">>),
     DbRows(None, <<>>)}
    \cup {DbRows(fields, rows) :
            fields \in {None, Some(<< <<"day">>, <<"clicks">> >>)},
            rows \in {RowsOfOne, RowsOfTwo}}

SqlRun ==
    /\ \E query \in SqlQueries, results \in DbResults, tabulate \in BOOLEAN :
        Observe("SQLTool.run", [query |-> query, results |-> results, tabulate |-> tabulate],
                SQLTool_run(query, results, tabulate))
    /\ UNCHANGED <<scratchpad, clock, calls, loaded, frame, file, save, process, threads>>

SqlRunAndFormat ==
    /\ \E query \in SqlQueries, results \in DbResults, tabulate \in BOOLEAN :
        Observe("SQLTool.run_and_format",
                [query |-> query, results |-> results, tabulate |-> tabulate],
                SQLTool_run_and_format(query, results, tabulate))
    /\ UNCHANGED <<scratchpad, clock, calls, loaded, frame, file, save, process, threads>>

----------------------------------------------------------------------------
(* SummarizerTool: src/tools/summarizer.py *)

\* self.default_prompt, read from the prompt file or the text at lines 48-64
default_prompt == <<"You are a data analyst ...\nDATA:\n", "{data}", "\n">>

\* the types json.dumps writes when it is given no default=
is_json_type(v) == v.kind \in {"str", "int", "bool", "NoneType"}

\* the JSON text of a value that holds no container
json_scalar_text(v) ==
    CASE v.kind = "str"      -> <<"\"">> \o v.repr \o <<"\"">>
      [] v.kind = "NoneType" -> <<"null">>
      [] v.kind = "bool"     -> lower(v.repr)
      [] OTHER               -> v.repr

\* json.dumps(data, indent=2) of a dict or list of values that hold no
\* container: TypeError for a value of a type JSON does not have
json_dumps_indent(data) ==
    LET held(i) == IF data.kind = "dict" THEN data.items[i].value ELSE data.items[i]
        bad == {i \in DOMAIN data.items : ~ is_json_type(held(i))}
        first_bad == CHOOSE i \in bad : \A j \in bad : i <= j
        member(i) ==
            IF data.kind = "dict"
            THEN <<"  \"", data.items[i].key, "\": ">> \o json_scalar_text(data.items[i].value)
            ELSE <<"  ">> \o json_scalar_text(data.items[i])
        open == IF data.kind = "dict" THEN "{" ELSE "["
        close == IF data.kind = "dict" THEN "}" ELSE "]"
    IN  IF bad # {}
        THEN RaisedWith("TypeError", <<"Object of type ", held(first_bad).kind,
                                       " is not JSON serializable">>)
        ELSE IF data.items = <<>> THEN Returned(<<open, close>>)
        ELSE Returned(<<open, "\n">>
                      \o join(<<",", "\n">>, [i \in DOMAIN data.items |-> member(i)])
                      \o <<"\n", close>>)

\* str.replace(old, new)
replace(text, old, new) == join(new, split(text, old))

\* what self.model.generate_content(prompt) does: it returns a response
\* with a text, it raises, or it returns a response whose .text raises
GenReturns(text)   == [fails |-> FALSE, text |-> text, message |-> <<>>]
GenRaises(message) == [fails |-> TRUE, text |-> <<>>, message |-> message]

\* summarize letting the exception of the generation call through
summarize_unguarded(self, data, custom_prompt, context, service) ==
    LET dumped == IF data.kind \in {"dict", "list"} THEN json_dumps_indent(data)
                  ELSE Returned(data.repr)
        chosen == or_default(custom_prompt, self.default_prompt)
        with_context ==
            IF or_default(context, <<>>) # <<>>
            THEN chosen \o <<"\n\nADDITIONAL CONTEXT:\n">> \o context.value
            ELSE chosen
        prompt == replace(with_context, <<"{data}">>, dumped.value)
    IN  IF dumped.raised # "none" THEN [outcome |-> dumped, sent |-> <<>>]
        ELSE [outcome |-> IF service.fails THEN RaisedWith("Exception", service.message)
                          ELSE Returned(service.text),
              sent    |-> <<prompt>>]

\* SummarizerTool.summarize: the outcome of the call and the prompts sent
\* to the generation service
summarize(self, data, custom_prompt, context, service) ==
    LET dumped == IF data.kind \in {"dict", "list"} THEN json_dumps_indent(data)
                  ELSE Returned(data.repr)
        chosen == or_default(custom_prompt, self.default_prompt)
        with_context ==
            IF or_default(context, <<>>) # <<>>
            THEN chosen \o <<"\n\nADDITIONAL CONTEXT:\n">> \o context.value
            ELSE chosen
        prompt == replace(with_context, <<"{data}">>, dumped.value)
    IN  IF dumped.raised # "none" THEN [outcome |-> dumped, sent |-> <<>>]
        ELSE [outcome |-> IF service.fails
                          THEN Returned(<<"Error generating summary: ">> \o service.message)
                          ELSE Returned(service.text),
              sent    |-> <<prompt>>]

\* f"{threshold*100}" for a threshold of so many tenths
percent_text(tenths) == str_int(tenths * 10) \o <<".0">>

\* SummarizerTool.analyze_metrics
analyze_metrics(self, metrics, time_period, focus_area, threshold, service) ==
    LET prompt ==
            <<"You are a marketing analyst ...\nAnalyze the following ">> \o time_period
            \o <<" metrics data and identify:\n1. Any significant changes (>">>
            \o percent_text(threshold) \o <<"% change) in key metrics\n...\n">>
            \o (IF or_default(focus_area, <<>>) # <<>>
                THEN <<"Focus specifically on analyzing ">> \o focus_area.value \o <<".">>
                ELSE <<>>)
            \o <<"\n...\nDATA:\n", "{data}", "\n">>
    IN  summarize(self, metrics, Some(prompt), None, service)

\* SummarizerTool.investigate_anomaly
investigate_anomaly(self, data, anomaly_description, related_context, service) ==
    LET prompt ==
            <<"You are a data detective ...\nANOMALY TO INVESTIGATE:\n">>
            \o anomaly_description
            \o <<"\n...\nDATA:\n", "{data}", "\n">>
    IN  summarize(self, data, Some(prompt), related_context, service)

(* The calls made on the tool, and what the generation service does *)

SummarizerTool == [default_prompt |-> default_prompt]

Metrics == PyDict(<<Item("ctr", PyScalar("int", <<"12">>)), Item("day", PyStr(<<"mon">>))>>)
MetricsWithDate == PyDict(<<Item("ctr", PyScalar("int", <<"12">>)), Item("at", V_date)>>)

SummaryData == {PyStr(<<"ctr fell">>), Metrics, MetricsWithDate, V_rows}

Services ==
    {GenReturns(<<"## Findings">>), GenRaises(<<"429 quota exceeded">>),
     GenRaises(<<"response.text: the response was blocked">>)}

Summarize ==
    /\ \E data \in SummaryData, service \in Services,
          custom_prompt \in {None, Some(<<"Summarise: ", "{data}">>)},
          context \in {None, Some(<<"campaign 5">>)} :
        Observe("summarize",
                [data |-> data, custom_prompt |-> custom_prompt, context |-> context,
                 service |-> service],
                summarize(SummarizerTool, data, custom_prompt, context, service))
    /\ UNCHANGED <<scratchpad, clock, calls, loaded, frame, file, save, process, threads>>

AnalyzeMetrics ==
    /\ \E metrics \in {Metrics, MetricsWithDate}, service \in Services,
          focus_area \in {None, Some(<<"CTR">>)}, threshold \in {2, 5} :
        Observe("analyze_metrics",
                [data |-> metrics, focus_area |-> focus_area, threshold |-> threshold,
                 service |-> service],
                analyze_metrics(SummarizerTool, metrics, <<"daily">>, focus_area,
                                threshold, service))
    /\ UNCHANGED <<scratchpad, clock, calls, loaded, frame, file, save, process, threads>>

InvestigateAnomaly ==
    /\ \E data \in {Metrics, MetricsWithDate}, service \in Services,
          related_context \in {None, Some(<<"budget was cut">>)} :
        Observe("investigate_anomaly",
                [data |-> data, related_context |-> related_context, service |-> service],
                investigate_anomaly(SummarizerTool, data, <<"CTR dropped by half">>,
                                    related_context, service))
    /\ UNCHANGED <<scratchpad, clock, calls, loaded, frame, file, save, process, threads>>

NextTools ==
    \/ Tick
    \/ SqlRun
    \/ SqlRunAndFormat
    \/ Summarize
    \/ AnalyzeMetrics
    \/ InvestigateAnomaly

SpecTools == Init /\ [][NextTools]_vars

----------------------------------------------------------------------------
(* Properties of the Scratchpad *)

\* what a call leaves in the stored entry for an optional argument
Stored(arg, default) == IF arg.given THEN arg.value ELSE default

ActionIsCall(entry, a) ==
    /\ entry.type = a.action_type
    /\ entry.description = a.description
    /\ entry.details = Stored(a.details, <<>>)

FindingIsCall(entry, f) ==
    /\ entry.title = f.title
    /\ entry.description = f.description
    /\ entry.importance = f.importance
    /\ entry.related_actions = Stored(f.related_actions, <<>>)
    /\ entry.evidence = Stored(f.evidence, <<>>)

\* C1: after any sequence of log_action, log_finding and add_context calls,
\* get_action_history() is exactly the logged actions in call order and
\* get_findings("low") is exactly the logged findings in call order.
C1_AppendOnlyInCallOrder ==
    LET history == get_action_history(scratchpad)
        found   == get_findings(scratchpad, S_low)
    IN  /\ Len(history) = Len(calls.actions)
        /\ \A i \in DOMAIN history : ActionIsCall(history[i], calls.actions[i])
        /\ Len(found) = Len(calls.findings)
        /\ \A i \in DOMAIN found : FindingIsCall(found[i], calls.findings[i])

\* two different actions were logged, and an add_context call came later
C1_Witness ==
    /\ Len(calls.actions) = 2
    /\ calls.actions[1] # calls.actions[2]
    /\ Len(calls.context) = 1
    /\ Len(scratchpad.actions) = 2

\* the importance ordinal of the specification: low=0, medium=1, high=2,
\* critical=3, case-insensitive, an unrecognised string counting as low
Levels == <<S_low, S_medium, S_high, S_critical>>
Ordinal(importance) ==
    LET name == lower(importance)
        at == {i \in DOMAIN Levels : Levels[i] = name}
    IN  IF at = {} THEN 0 ELSE (CHOOSE i \in at : TRUE) - 1

Thresholds == {S_low, S_medium, S_high, S_critical}

\* the ordinal of every threshold a caller passes
ThresholdOrdinal == [t \in Thresholds \cup {S_HIGH} |-> Ordinal(t)]

\* a is a subsequence of b: a is b with some entries left out
RECURSIVE IsSubsequence(_, _)
IsSubsequence(a, b) ==
    IF a = <<>> THEN TRUE
    ELSE IF b = <<>> THEN FALSE
    ELSE IF Head(a) = Head(b) THEN IsSubsequence(Tail(a), Tail(b))
    ELSE IsSubsequence(a, Tail(b))

\* C7: for thresholds t1 <= t2, get_findings(t2) is a subsequence of
\* get_findings(t1), the common entries in the same relative order.
C7_FilterMonotone ==
    LET found == [t \in Thresholds |-> get_findings(scratchpad, t)]
    IN  \A t1, t2 \in Thresholds :
            ThresholdOrdinal[t1] <= ThresholdOrdinal[t2]
                => IsSubsequence(found[t2], found[t1])

\* three findings that every threshold separates
C7_Witness ==
    /\ Len(get_findings(scratchpad, S_critical)) = 1
    /\ Len(get_findings(scratchpad, S_high)) = 2
    /\ Len(get_findings(scratchpad, S_medium)) = 3

\* C8: get_findings(min_importance) is exactly the findings whose ordinal is
\* >= the ordinal of min_importance (case-insensitively), in insertion order;
\* a single finding logged as critical is what get_findings("high") returns.
C8_FilterByOrdinal ==
    /\ \A m \in Thresholds \cup {S_HIGH} :
          get_findings(scratchpad, m) =
              SelectSeq(scratchpad.findings,
                        LAMBDA f : Ordinal(f.importance) >= ThresholdOrdinal[m])
    /\ (Len(calls.findings) = 1 /\ calls.findings[1].importance = S_critical)
          => /\ Len(get_findings(scratchpad, S_high)) = 1
             /\ get_findings(scratchpad, S_high)[1].title = calls.findings[1].title

\* a low finding, then an upper-case HIGH one, then a critical one
C8_Witness ==
    /\ Len(scratchpad.findings) = 3
    /\ scratchpad.findings[1].importance = S_low
    /\ scratchpad.findings[2].importance = S_HIGH
    /\ scratchpad.findings[3].importance = S_critical
    /\ Len(get_findings(scratchpad, S_high)) = 2

KeysCalled == {calls.context[i].key : i \in DOMAIN calls.context}
LastCall(k) ==
    calls.context[CHOOSE i \in DOMAIN calls.context :
        /\ calls.context[i].key = k
        /\ \A j \in DOMAIN calls.context : calls.context[j].key = k => j <= i]
Occurrences(seq, x) == Cardinality({i \in DOMAIN seq : seq[i] = x})

\* C9: get_context(k) is the value of the last add_context(k, v) call, and
\* the summary's context_keys lists every key exactly once.
C9_ContextOverwrite ==
    LET keys == get_summary(scratchpad, now).context_keys
    IN  /\ \A k \in KeysCalled :
              /\ get_context(scratchpad, k) = Some(LastCall(k).value)
              /\ Occurrences(keys, k) = 1
        /\ \A i \in DOMAIN keys : keys[i] \in KeysCalled

\* add_context("k", "a") then add_context("k", "b")
C9_Witness ==
    /\ Len(calls.context) >= 2
    /\ calls.context[1] = [key |-> "k", value |-> V_a]
    /\ calls.context[2] = [key |-> "k", value |-> V_b]
    /\ get_context(scratchpad, "k") = Some(V_b)

\* C10: get_summary() reports as action_count the number of log_action calls
\* and as finding_count the number of log_finding calls; on a fresh
\* Scratchpad both are 0 and high_importance_findings is empty.
C10_SummaryCounts ==
    LET summary == get_summary(scratchpad, now)
    IN  /\ summary.action_count = Len(calls.actions)
        /\ summary.finding_count = Len(calls.findings)
        /\ OpCount = 0 =>
              /\ summary.action_count = 0
              /\ summary.finding_count = 0
              /\ summary.high_importance_findings = <<>>

\* two actions and one finding were logged
C10_Witness ==
    /\ Len(calls.actions) = 2
    /\ Len(calls.findings) = 1
    /\ get_summary(scratchpad, now).action_count = 2
    /\ get_summary(scratchpad, now).finding_count = 1

\* the titles of a sequence of findings
Titles(fs) == [i \in DOMAIN fs |-> fs[i].title]

\* C11: the summary's high_importance_findings is the sequence of the titles
\* of exactly the findings whose importance is high or critical (ordinal
\* >= 2, whatever the case of the letters), in insertion order; it equals
\* the titles of get_findings("high").
C11_HighImportanceTitles ==
    LET listed == get_summary(scratchpad, now).high_importance_findings
    IN  /\ listed = Titles(SelectSeq(scratchpad.findings,
                                     LAMBDA f : Ordinal(f.importance) >= 2))
        /\ listed = Titles(get_findings(scratchpad, S_high))

\* an upper-case HIGH finding, a medium one and a critical one with another
\* title: the summary lists the first and the third
C11_Witness ==
    /\ Len(scratchpad.findings) = 3
    /\ scratchpad.findings[1].importance = S_HIGH
    /\ scratchpad.findings[2].importance = S_medium
    /\ scratchpad.findings[3].importance = S_critical
    /\ get_summary(scratchpad, now).high_importance_findings = <<S_Spike, S_CTR_Drop>>

\* an importance string that is none of low / medium / high / critical
Unrecognised(importance) == lower(importance) \notin Thresholds

InSeq(x, seq) == \E i \in DOMAIN seq : seq[i] = x

\* C16: a finding logged with an importance that is not one of the four
\* levels is stored with that string verbatim, is returned by
\* get_findings("low") and by none of get_findings("medium" / "high" /
\* "critical"), and is counted, not listed, by get_summary.
C16_UnknownImportanceIsLowest ==
    \A i \in DOMAIN calls.findings :
        Unrecognised(calls.findings[i].importance) =>
            /\ i \in DOMAIN scratchpad.findings
            /\ scratchpad.findings[i].importance = calls.findings[i].importance
            /\ InSeq(scratchpad.findings[i], get_findings(scratchpad, S_low))
            /\ \A m \in {S_medium, S_high, S_critical} :
                  ~ InSeq(scratchpad.findings[i], get_findings(scratchpad, m))
            /\ get_summary(scratchpad, now).finding_count = Len(calls.findings)
            /\ Len(get_summary(scratchpad, now).high_importance_findings)
                  <= Cardinality({j \in DOMAIN calls.findings :
                                     ~ Unrecognised(calls.findings[j].importance)})

\* a finding logged as "urgent" between a medium and a high one
C16_Witness ==
    /\ Len(calls.findings) = 3
    /\ calls.findings[1].importance = S_medium
    /\ calls.findings[2].importance = S_urgent
    /\ calls.findings[3].importance = S_high
    /\ scratchpad.findings[2].importance = S_urgent
    /\ Len(get_findings(scratchpad, S_low)) = 3
    /\ Len(get_findings(scratchpad, S_medium)) = 2

\* C17: every log_action call appends exactly one entry, built from its
\* arguments (details an empty mapping when omitted) and stamped with the
\* time of the call, to the end of the action sequence, and leaves the
\* findings, the context, start_time and the earlier actions as they were.
C17_LogActionAppendsOne ==
    [][Len(calls'.actions) = Len(calls.actions) + 1 =>
          LET n == Len(scratchpad.actions) + 1
          IN  /\ Len(scratchpad'.actions) = n
              /\ SubSeq(scratchpad'.actions, 1, n - 1) = scratchpad.actions
              /\ ActionIsCall(scratchpad'.actions[n], calls'.actions[n])
              /\ ~ calls'.actions[n].details.given
                    => scratchpad'.actions[n].details = EmptyDict
              /\ scratchpad'.actions[n].timestamp = isoformat(now)
              /\ scratchpad'.findings = scratchpad.findings
              /\ scratchpad'.context = scratchpad.context
              /\ scratchpad'.start_time = scratchpad.start_time]_vars

\* after a finding and a context entry, and after the clock moved, an action
\* was logged without details behind an action with details
C17_Witness ==
    /\ Len(scratchpad.actions) = 2
    /\ scratchpad.actions[1].details # EmptyDict
    /\ calls.actions[2].details = None
    /\ scratchpad.actions[2].details = EmptyDict
    /\ scratchpad.actions[1].timestamp # scratchpad.actions[2].timestamp
    /\ Len(scratchpad.findings) + Len(scratchpad.context) = 1

----------------------------------------------------------------------------
(* Properties of the JSON round trip *)

\* values json.dumps writes without default=str and json.loads reads back
\* with the same type
JsonNativeScalar(v) == v.kind \in {"str", "int", "bool", "NoneType"}
JsonNative(v) ==
    \/ JsonNativeScalar(v)
    \/ v.kind = "list" /\ \A i \in DOMAIN v.items : JsonNativeScalar(v.items[i])
    \/ v.kind = "dict" /\ \A i \in DOMAIN v.items : JsonNativeScalar(v.items[i].value)
DictNative(d) == \A i \in DOMAIN d : JsonNative(d[i].value)
AllNative(S) ==
    /\ \A i \in DOMAIN S.actions : DictNative(S.actions[i].details)
    /\ \A i \in DOMAIN S.findings : DictNative(S.findings[i].evidence)
    /\ DictNative(S.context)

SameFields(T, S) ==
    /\ T.actions = S.actions
    /\ T.findings = S.findings
    /\ T.context = S.context
    /\ T.start_time = S.start_time

C30_SecondTripIdentity ==
    (loaded.exists /\ loaded.trips = 2)
        => SameFields(loaded.result, loaded.source)

\* S held a value to_json writes through str(), so that T differs from S,
\* and T was serialised and read back at a later time than its start_time
C30_Witness ==
    /\ loaded.exists /\ loaded.trips = 2
    /\ ~ AllNative(scratchpad)
    /\ Len(scratchpad.actions) = 1
    /\ Len(loaded.source.actions) = 1
    /\ loaded.source.actions # scratchpad.actions
    /\ loaded.result.actions = loaded.source.actions
    /\ loaded.source.start_time # now

----------------------------------------------------------------------------
(* Properties of the finding extraction *)

Done == frame.pc = "done"

\* the findings the final extraction appended
Extracted ==
    SubSeq(scratchpad.findings, frame.findings_before + 1, Len(scratchpad.findings))

\* Where the sections of a text begin: at its first character and after
\* every occurrence of the marker "\n## ".
Marker == <<"\n", "#", "#", " ">>
SectionStarts(text) ==
    {1} \cup {i + Len(Marker) : i \in {j \in 1..(Len(text) - Len(Marker) + 1) :
                                    SubSeq(text, j, j + Len(Marker) - 1) = Marker}}

Tokens == {S_finding, S_anomal, S_cause, S_result}

\* the heading of the section beginning at p: its first line
HeadingAt(text, p) ==
    LET ends == {q \in p..Len(text) : text[q] = "\n"}
        last == IF ends = {} THEN Len(text)
                ELSE (CHOOSE q \in ends : \A r \in ends : q <= r) - 1
    IN  SubSeq(text, p, last)

HeadingMatches(text, p) ==
    \E token \in Tokens :
        /\ Len(HeadingAt(text, p)) >= Len(token)
        /\ \A k \in 1..Len(token) : lower_char(HeadingAt(text, p)[k]) = token[k]

MatchingStarts(text) == {p \in SectionStarts(text) : HeadingMatches(text, p)}

\* the elements of a set of numbers in increasing order
RECURSIVE Ascending(_)
Ascending(S) ==
    IF S = {} THEN <<>>
    ELSE LET least == CHOOSE x \in S : \A y \in S : x <= y
         IN  <<least>> \o Ascending(S \ {least})

IsFallback(f) == f.title = S_Investigation_Results /\ f.importance = S_medium

\* C3: whatever text the crew returns, the extraction step appends at least
\* one finding.
C3_ExtractionTotal == Done => Len(Extracted) >= 1

\* the crew returned the empty string and the run ended
C3_Witness == Done /\ frame.result = <<>> /\ Len(Extracted) = 1

Text_C4 ==
    S_Heading2 \o S_Finding_CTR_Drop \o S_Newline \o <<" ">> \o S_50_drop \o <<" ">>

\* C4: for the text "## Finding: CTR Drop\n<body>", the heading being its
\* first line, extraction yields exactly one finding, of importance high,
\* titled "Finding: CTR Drop", described by the trimmed body, and no fallback.
C4_HeadingOnFirstLine ==
    (Done /\ frame.result = Text_C4) =>
        /\ Len(Extracted) = 1
        /\ Extracted[1].importance = S_high
        /\ Extracted[1].title = S_Finding_CTR_Drop
        /\ Extracted[1].description = S_50_drop
        /\ ~ IsFallback(Extracted[1])

\* C5: the extraction appends either one high finding per section whose
\* heading starts (case-insensitively) with a token, in text order, and no
\* fallback, or exactly one medium fallback and no high finding; the
\* fallback is appended iff the section pass emitted nothing.  A section is
\* a piece of the text between markers, the piece before the first marker
\* included, and its heading is its first line.
C5_FirstPassWins ==
    Done =>
        LET starts == Ascending(MatchingStarts(frame.result))
        IN  /\ IF starts # <<>>
               THEN /\ Len(Extracted) = Len(starts)
                    /\ \A k \in DOMAIN starts :
                          /\ Extracted[k].importance = S_high
                          /\ Extracted[k].title = strip(HeadingAt(frame.result, starts[k]))
                          /\ ~ IsFallback(Extracted[k])
               ELSE /\ Len(Extracted) = 1
                    /\ IsFallback(Extracted[1])
            /\ (\E k \in DOMAIN Extracted : IsFallback(Extracted[k]))
                  <=> ~ frame.extraction_completed

\* two sections matched, the second one in upper case, and the run ended
C5_Witness ==
    /\ Done
    /\ Cardinality(MatchingStarts(frame.result)) = 2
    /\ Len(Extracted) = 2
    /\ Extracted[1].title = S_Finding_CTR_Drop
    /\ Extracted[2].title = S_CAUSE

\* C6: for a text in which no section heading matches, the extraction
\* appends exactly one finding: title "Investigation Results", description
\* the whole raw text unchanged, importance medium.
C6_FallbackContent ==
    (Done /\ MatchingStarts(frame.result) = {}) =>
        /\ Len(Extracted) = 1
        /\ Extracted[1].title = S_Investigation_Results
        /\ Extracted[1].description = frame.result
        /\ Extracted[1].importance = S_medium

\* a text with a heading that does not match and spaces at its end
C6_Witness ==
    /\ Done
    /\ frame.result = Marker \o <<" ">> \o S_50_drop \o <<" ">>
    /\ Len(Extracted) = 1
    /\ Extracted[1].description = frame.result

(* Properties of a run of run_investigation *)

\* the context the caller supplied, as the sequence of its items
UserContext == Stored(frame.context, <<>>)

\* C28: the query is recorded under "query" before the user's context is
\* copied: every key of the user's context maps to the value supplied, also
\* the key "query", and without such a key get_context("query") is the
\* query of the investigation.
C28_UserContextWins ==
    frame.pc # "idle" =>
        /\ \A i \in DOMAIN UserContext :
              get_context(scratchpad, UserContext[i].key) = Some(UserContext[i].value)
        /\ (\A i \in DOMAIN UserContext : UserContext[i].key # "query")
              => get_context(scratchpad, "query") = Some(PyStr(frame.query))

\* a run whose context held the key "query": the query was overwritten
C28_Witness ==
    /\ Done
    /\ \E i \in DOMAIN UserContext : UserContext[i].key = "query"
    /\ get_context(scratchpad, "query") = Some(PyStr(<<"other">>))
    /\ get_context(scratchpad, "query") # Some(PyStr(frame.query))
    /\ get_context(scratchpad, "region") = Some(PyStr(<<"EU">>))

\* the indices of the actions of a type
ActionsOfType(ty) == {i \in DOMAIN scratchpad.actions : scratchpad.actions[i].type = ty}

\* the findings logged by the hook on_agent_end
HookFindings ==
    {j \in DOMAIN scratchpad.findings :
        scratchpad.findings[j].description = S_Extracted_from_agent_output}

\* the time of timestamp a is not before that of timestamp b
NotBefore(a, b) ==
    LET x == fromisoformat(a)
        y == fromisoformat(b)
    IN  x.sec > y.sec \/ (x.sec = y.sec /\ x.us >= y.us)

\* C27: in a completed run the action log starts with the only
\* investigation_start and ends with the only investigation_complete, every
\* agent_start and agent_end lies strictly between them, and the findings of
\* the final extraction come after all findings of the hooks and not before
\* the investigation_complete action.
C27_RunOrder ==
    Done =>
        LET A == scratchpad.actions
            F == scratchpad.findings
        IN  /\ ActionsOfType("investigation_start") = {1}
            /\ ActionsOfType("investigation_complete") = {Len(A)}
            /\ Len(A) >= 2
            /\ \A i \in ActionsOfType("agent_start") \cup ActionsOfType("agent_end") :
                  1 < i /\ i < Len(A)
            /\ \A i \in 2..(Len(A) - 1) : A[i].type \in {"agent_start", "agent_end"}
            /\ \A j \in DOMAIN F :
                  IF j \in HookFindings
                  THEN j <= frame.findings_before
                  ELSE /\ j > frame.findings_before
                       /\ \A h \in HookFindings : h < j
                       /\ NotBefore(F[j].timestamp, A[Len(A)].timestamp)

\* a verbose run whose hooks logged a finding before the clock moved and
\* whose final extraction logged one after
C27_Witness ==
    /\ Done /\ frame.verbose
    /\ Len(scratchpad.actions) = 2 + 2 * Len(AgentRoles)
    /\ HookFindings # {}
    /\ Len(Extracted) >= 1
    /\ scratchpad.findings[1].timestamp # scratchpad.findings[Len(scratchpad.findings)].timestamp
    /\ scratchpad.actions[1].timestamp # scratchpad.actions[Len(scratchpad.actions)].timestamp

\* the output an agent_end action was logged for: outputs no longer than
\* the preview are stored whole
OutputOf(i) == scratchpad.actions[i].details[2].value.repr

\* the text holds "finding" or "anomaly" in any case
Mentions(text) == contains(lower(text), S_finding) \/ contains(lower(text), S_anomaly)

\* the lines of the outputs of the agents, as <<action, line number>>, that
\* pass a test
LinesWhere(Test(_, _)) ==
    UNION {{<<i, l>> : l \in {l \in DOMAIN split(OutputOf(i), S_Newline) :
                                Test(OutputOf(i), split(OutputOf(i), S_Newline)[l])}} :
            i \in ActionsOfType("agent_end")}

\* a line that begins with '#' and is longer than two characters
BeginsWithMarker(text, line) == Len(line) > 2 /\ line[1] = "#"

\* a line of a text mentioning a finding or an anomaly that begins with '#'
\* once trimmed and is itself longer than two characters
TrimmedBeginsWithMarker(text, line) ==
    /\ Mentions(text)
    /\ Len(line) > 2
    /\ strip(line) # <<>>
    /\ strip(line)[1] = "#"

\* without verbose no hook runs
QuietWithoutVerbose ==
    ~ frame.verbose =>
        /\ ActionsOfType("agent_start") \cup ActionsOfType("agent_end") = {}
        /\ HookFindings = {}

\* C25 as stated: every line of an agent's output that begins with a
\* heading marker and is longer than two characters is logged as a medium
\* finding with the placeholder description, and nothing is logged by hooks
\* without verbose.
C25_EveryHeadingLineLogged ==
    /\ Cardinality(HookFindings) >= Cardinality(LinesWhere(BeginsWithMarker))
    /\ \A j \in HookFindings : scratchpad.findings[j].importance = S_medium
    /\ QuietWithoutVerbose

\* C25, amended: the heading lines are logged only for an output that
\* holds "finding" or "anomaly" in any case: the medium findings with the
\* placeholder description are as many as the lines of such outputs that
\* begin with '#' once trimmed and are longer than two characters, and
\* nothing is logged by hooks without verbose.
C25_HeadingLinesOfKeywordOutputs ==
    /\ Cardinality(HookFindings) = Cardinality(LinesWhere(TrimmedBeginsWithMarker))
    /\ \A j \in HookFindings : scratchpad.findings[j].importance = S_medium
    /\ QuietWithoutVerbose

\* one agent ended with a heading and no keyword, the other with the
\* keyword, a heading, a line "#" and an indented heading: two findings
\* were logged by the hooks
C25_Witness ==
    /\ Done /\ frame.verbose
    /\ \E i \in ActionsOfType("agent_end") : OutputOf(i) = S_Heading2 \o S_CAUSE
    /\ \E i \in ActionsOfType("agent_end") :
          Mentions(OutputOf(i)) /\ Len(split(OutputOf(i), S_Newline)) = 3
    /\ Cardinality(HookFindings) = 2
    /\ Cardinality(LinesWhere(BeginsWithMarker)) = 2
    /\ \E j \in HookFindings : scratchpad.findings[j].title = <<"#", "x">>

\* s is the beginning of t
IsPrefix(s, t) == Len(s) <= Len(t) /\ SubSeq(t, 1, Len(s)) = s

----------------------------------------------------------------------------
(* Properties of the queries, the report and the snapshot file *)

\* C12: start_time is the time the Scratchpad was constructed at, and no
\* step of any operation on it (log_action, log_finding, add_context, the
\* get_* queries, get_summary, print_report, to_dict, to_json, save_to_file)
\* changes it.
C12_StartTimeFixed ==
    /\ scratchpad.start_time = now
    /\ [][scratchpad'.start_time = scratchpad.start_time]_vars

\* the clock moved, an action and a finding were logged, the Scratchpad was
\* saved and its report printed: start_time is still the first instant
C12_Witness ==
    /\ clock = 2
    /\ scratchpad.start_time = Instants[1]
    /\ Len(scratchpad.actions) = 1
    /\ Len(scratchpad.findings) = 1
    /\ scratchpad.findings[1].timestamp = isoformat(Instants[2])
    /\ file.exists /\ Len(file.data) = Len(SnapshotKeys)
    /\ observed.op = "print_report"

\* a related action index that no action has
IsDangling(index, pad) == index < 0 \/ index >= Len(pad.actions)

DanglingFindings ==
    {i \in DOMAIN scratchpad.findings :
        \E k \in DOMAIN scratchpad.findings[i].related_actions :
            IsDangling(scratchpad.findings[i].related_actions[k], scratchpad)}

\* C18: log_finding takes related action indices that are negative or not
\* below the number of actions: every call appends one finding that holds
\* the indices as given, and get_findings, get_summary, print_report and
\* to_json afterwards give their results, the indices unchanged in them.
C18_DanglingIndicesAccepted ==
    /\ Len(scratchpad.findings) = Len(calls.findings)
    /\ \A i \in DOMAIN calls.findings :
          calls.findings[i].related_actions.given =>
              scratchpad.findings[i].related_actions =
                  calls.findings[i].related_actions.value
    /\ \A i \in DanglingFindings :
          /\ observed.op = "get_findings" =>
                (ThresholdOrdinal[observed.arg] <= Ordinal(scratchpad.findings[i].importance)
                    => InSeq(scratchpad.findings[i], observed.value))
          /\ observed.op = "get_summary" =>
                observed.value.finding_count = Len(calls.findings)
          /\ observed.op = "to_json" =>
                observed.value.findings[i].related_actions =
                    calls.findings[i].related_actions.value
          /\ observed.op = "print_report" =>
                InSeq(Text(<<"Findings: ", Digits[Len(calls.findings) + 1]>>), observed.value)

\* a finding naming the actions -1, 0 and 7 was logged when there was one
\* action, and to_json was called
C18_Witness ==
    /\ Len(scratchpad.actions) = 1
    /\ Len(scratchpad.findings) = 1
    /\ scratchpad.findings[1].related_actions = <<-1, 0, 7>>
    /\ observed.op = "to_json"
    /\ observed.value.findings[1].related_actions = <<-1, 0, 7>>

\* the report that was printed, and where a line stands in it
Report == observed.value
LinesAt(line) == {i \in DOMAIN Report : Report[i] = line}
Pos(line) == CHOOSE i \in LinesAt(line) : TRUE
Once(line) == Cardinality(LinesAt(line)) = 1
Slice(seq, from, to) == [i \in 1..(to - from + 1) |-> seq[from + i - 1]]

\* the findings of one level of the specification, in insertion order
OfOrdinal(n) == SelectSeq(scratchpad.findings, LAMBDA f : Ordinal(f.importance) = n)

Numerals == <<"1", "2", "3", "4", "5", "6", "7", "8", "9">>

\* a heading followed by the numbered titles of the findings, each with its
\* description under it; nothing when there is no finding
BlockWithDescriptions(heading, fs) ==
    IF fs = <<>> THEN <<>>
    ELSE <<heading>> \o
         [k \in 1..(2 * Len(fs)) |->
            IF k % 2 = 1
            THEN Text(<<"\n", Numerals[(k + 1) \div 2], ". ">> \o fs[(k + 1) \div 2].title)
            ELSE Text(<<"   ">> \o fs[k \div 2].description)]

\* the numbered titles alone
NumberedTitles(fs) ==
    [k \in DOMAIN fs |-> Text(<<"\n", Numerals[k], ". ">> \o fs[k].title)]

\* C19: the report is the header, then Summary, then Key Findings, then
\* Other Findings (when there is a medium finding), then the Action Log; Key
\* Findings holds the critical findings, then the high ones, and the "No
\* high or critical findings identified." line iff there is neither; Other
\* Findings holds the medium findings only, so no low finding is shown; the
\* Action Log holds every action once, in log order, numbered from 1.
C19_ReportLayout ==
    observed.op = "print_report" =>
        LET critical == OfOrdinal(3)
            high     == OfOrdinal(2)
            medium   == OfOrdinal(1)
            key      == Pos(L_KeyFindings)
            log      == Pos(L_ActionLog)
            other    == IF LinesAt(L_Other) = {} THEN log ELSE Pos(L_Other)
        IN  /\ Once(L_Title) /\ Once(L_Summary) /\ Once(L_KeyFindings) /\ Once(L_ActionLog)
            /\ Cardinality(LinesAt(L_Other)) <= 1
            /\ Pos(L_Title) = 2
            /\ Pos(L_Title) < Pos(L_Summary)
            /\ Pos(L_Summary) < key
            /\ key < other
            /\ other <= log
            /\ Slice(Report, key + 1, other - 1) =
                  BlockWithDescriptions(L_Critical, critical)
                  \o BlockWithDescriptions(L_High, high)
                  \o (IF critical = <<>> /\ high = <<>> THEN <<L_NoneFound>> ELSE <<>>)
            /\ (LinesAt(L_NoneFound) # {}) <=> (critical = <<>> /\ high = <<>>)
            /\ (critical # <<>> /\ high # <<>>) => Pos(L_Critical) < Pos(L_High)
            /\ (LinesAt(L_Other) # {}) <=> (medium # <<>>)
            /\ medium # <<>> => Slice(Report, other + 1, log - 1) = NumberedTitles(medium)
            /\ Len(Report) = log + Len(scratchpad.actions) + 1
            /\ \A i \in DOMAIN scratchpad.actions :
                  /\ Report[log + i].text = <<Numerals[i], ". [">>
                  /\ Report[log + i].rest =
                        <<"] ", scratchpad.actions[i].type, ": ">>
                        \o scratchpad.actions[i].description

\* a high, then a critical, then a medium finding were logged and the
\* report was printed: the critical one stands above the high one
C19_Witness ==
    /\ observed.op = "print_report"
    /\ Len(scratchpad.findings) = 3
    /\ scratchpad.findings[1].importance = S_high
    /\ scratchpad.findings[2].importance = S_critical
    /\ scratchpad.findings[3].importance = S_medium
    /\ Pos(L_Critical) < Pos(L_High)
    /\ Pos(L_High) < Pos(L_Other)

\* a text of to_json from its first member to its last
IsSnapshot(data) ==
    /\ Len(data) = Len(SnapshotKeys)
    /\ \A i \in DOMAIN data : data[i].key = SnapshotKeys[i]

\* C20: save_to_file leaves the whole new snapshot in the file, whatever the
\* file held, and if the process crashes inside save_to_file the file is as
\* it was before the call or holds the whole new snapshot.
C20_NoPartialFileOnCrash ==
    /\ (Idle /\ file.exists) => IsSnapshot(file.data)
    /\ save.pc = "crashed" =>
          \/ file = save.previous
          \/ /\ save.buffer # <<>>
             /\ file = [exists |-> TRUE, data |-> save.buffer]

\* the seven read operations
ReadOps ==
    {"get_action_history", "get_findings", "get_context", "get_summary",
     "print_report", "to_dict", "to_json"}

\* a snapshot without the two members of its summary that tell the time
Timeless(doc) ==
    [doc EXCEPT !.summary = [@ EXCEPT !.end_time = <<>>,
                                      !.duration_seconds = [sec |-> 0, us |-> 0]]]

\* C29: a step after which the last call is a read operation leaves
\* actions, findings, context and start_time as they were, and two to_json
\* calls with no mutation between them return texts that agree on
\* everything but the summary's end_time and duration_seconds.
C29_ReadsChangeNothing ==
    [][observed'.op \in ReadOps
        => /\ scratchpad'.actions = scratchpad.actions
           /\ scratchpad'.findings = scratchpad.findings
           /\ scratchpad'.context = scratchpad.context
           /\ scratchpad'.start_time = scratchpad.start_time
           /\ (observed.op = "to_json" /\ observed'.op = "to_json")
                => Timeless(observed'.value) = Timeless(observed.value)]_vars

\* to_json was called on a Scratchpad that holds an action, a finding and a
\* context entry, at a later time than its start_time
C29_Witness ==
    /\ observed.op = "to_json"
    /\ observed.value.actions # <<>>
    /\ observed.value.context # <<>>
    /\ observed.value.summary.end_time # observed.value.start_time
    /\ observed.value.summary.action_count = Len(scratchpad.actions)
    /\ observed.value.start_time = isoformat(scratchpad.start_time)

----------------------------------------------------------------------------
(* Properties of the tools *)

\* C21: SQLTool.run raises nothing: when execute_query raises, or when the
\* rows cannot be processed (the preview cannot be made, or the names found
\* for the columns are not as many as the columns), it returns success =
\* false with the text of the error and the query as it was given; when it
\* returns success = true the query did not raise and its rows, if any,
\* were all processed.  run_and_format returns the text of the error.
C21_RunReturnsFailure ==
    /\ observed.op = "SQLTool.run" =>
        LET a == observed.arg
            r == observed.value
        IN  /\ r.raised = "none"
            /\ a.results.raises =>
                  /\ ~ r.value.success
                  /\ r.value.error = a.results.message
            /\ (a.results.rows # <<>> /\ ~ a.tabulate) => ~ r.value.success
            /\ (a.results.rows # <<>> /\ a.results.fields # None
                    /\ Len(a.results.fields.value) # Len(a.results.rows[1]))
                  => ~ r.value.success
            /\ ~ r.value.success =>
                  /\ DOMAIN r.value = {"success", "error", "query"}
                  /\ r.value.query = a.query
                  /\ r.value.error # <<>>
            /\ r.value.success =>
                  /\ ~ a.results.raises
                  /\ r.value.row_count = Len(a.results.rows)
                  /\ a.results.rows # <<>> =>
                        /\ a.tabulate
                        /\ Len(r.value.columns) = Len(a.results.rows[1])
                        /\ Len(r.value.data) = Len(a.results.rows)
    /\ observed.op = "SQLTool.run_and_format" =>
        /\ observed.value.raised = "none"
        /\ observed.arg.results.raises =>
              observed.value.value = <<"(x) Query error: ">> \o observed.arg.results.message

\* the query ran and returned two plain tuples of two columns, the text of
\* the query names one column, "*": run returned the failure of the DataFrame
C21_Witness ==
    /\ observed.op = "SQLTool.run"
    /\ ~ observed.arg.results.raises
    /\ Len(observed.arg.results.rows) = 2
    /\ observed.arg.tabulate
    /\ ~ observed.value.value.success
    /\ observed.value.value.query = observed.arg.query
    /\ observed.value.value.error =
          <<"1", " columns passed, passed data had ", "2", " columns">>

\* a generation call was made and failed
GenerationFailed ==
    /\ observed.op \in {"summarize", "analyze_metrics", "investigate_anomaly"}
    /\ observed.value.sent # <<>>
    /\ observed.arg.service.fails

\* C22: when the generation call made by summarize, analyze_metrics or
\* investigate_anomaly fails, the call returns the text "Error generating
\* summary: " followed by the text of the error, and raises nothing.
C22_GenerationFailureReturned ==
    GenerationFailed =>
        /\ observed.value.outcome.raised = "none"
        /\ observed.value.outcome.value =
              <<"Error generating summary: ">> \o observed.arg.service.message

\* analyze_metrics was called with metrics JSON can write and the service
\* raised: the data were put into the prompt and the error text was returned
C22_Witness ==
    /\ GenerationFailed
    /\ observed.op = "analyze_metrics"
    /\ observed.arg.data = Metrics
    /\ contains(observed.value.sent[1], <<"  \"", "ctr", "\": ", "12", ",", "\n">>)
    /\ ~ contains(observed.value.sent[1], <<"{data}">>)
    /\ contains(observed.value.sent[1], <<"5", "0", ".0">>)
    /\ observed.value.outcome = Returned(<<"Error generating summary: ", "429 quota exceeded">>)

----------------------------------------------------------------------------
(* Properties of the start of the program *)

\* C23: when a required variable is missing, the program does no other
\* work (it creates no crew, reaches no database, runs no investigation),
\* and it ends with an exit code that is not 0 after validate_environment
\* has reported the variables that are missing.
C23_MissingReportedFirst ==
    (process.pc # "none" /\ missing_vars(process.env) # <<>>) =>
        /\ process.work \cap {"crew", "database", "investigation"} = {}
        /\ process.exited =>
              /\ process.exit_code # 0
              /\ process.reported = missing_vars(process.env)

----------------------------------------------------------------------------
(* Properties of concurrent callbacks *)

\* the calls of an operation the threads have completed, as <<thread, number>>
Completed(op) ==
    UNION {{<<i, k>> : k \in {k \in DOMAIN threads.workers[i].done :
                                threads.workers[i].done[k].op = op}} :
            i \in DOMAIN threads.workers}

CompletedCall(c) == threads.workers[c[1]].done[c[2]]

\* the entries of an operation's sequence are the entries that were there
\* when the callbacks began, in their places, and after them one entry per
\* completed call, each in a place of its own
EachOnce(op, before, sequence) ==
    /\ IsPrefix(before, sequence)
    /\ Len(sequence) = Len(before) + Cardinality(Completed(op))
    /\ \A c \in Completed(op) :
          /\ CompletedCall(c).index \in (Len(before) + 1)..Len(sequence)
          /\ sequence[CompletedCall(c).index] = CompletedCall(c).entry
    /\ \A c, d \in Completed(op) :
          c # d => CompletedCall(c).index # CompletedCall(d).index

----------------------------------------------------------------------------
(* Properties of from_json *)

IsObject(text) == text.syntax = "valid" /\ text.type = "object"

\* C13: from_json raises the parse error of the JSON parser both on text
\* that is not JSON and on JSON that is not an object, and returns no
\* Scratchpad then.
C13_ParseErrorOnBadInput ==
    (loaded.exists /\ ~ IsObject(loaded.text)) =>
        loaded.outcome.raised = "JSONDecodeError"

\* the objects that differ from an object at most in their "summary"
SummaryVariants(members) ==
    {Without(members, {"summary"}),
     [k \in DOMAIN members \cup {"summary"} |->
         IF k = "summary" THEN OtherSummary ELSE members[k]]}

\* C14: from_json returns the same Scratchpad for two objects that differ
\* only in the presence or the contents of "summary", and the summary of
\* the Scratchpad returned is computed from what was restored.
C14_SummaryIgnored ==
    (loaded.exists /\ IsObject(loaded.text)) =>
        LET T == loaded.outcome.value
        IN  /\ loaded.outcome.raised = "none"
            /\ \A members \in SummaryVariants(loaded.text.members) :
                  Scratchpad_from_json(JsonObject(members), loaded.at) = loaded.outcome
            /\ get_summary(T, now).action_count = Len(T.actions)
            /\ get_summary(T, now).finding_count = Len(T.findings)
            /\ get_summary(T, now).context_keys = dict_keys(T.context)
            /\ get_summary(T, now).start_time = isoformat(T.start_time)

\* an object with an action, a finding and a summary that describes neither
\* was loaded
C14_Witness ==
    /\ loaded.exists /\ IsObject(loaded.text)
    /\ DOMAIN loaded.text.members = {SnapshotKeys[i] : i \in DOMAIN SnapshotKeys}
    /\ loaded.text.members["summary"] = OtherSummary
    /\ Len(loaded.outcome.value.actions) = 1
    /\ Len(loaded.outcome.value.findings) = 1
    /\ get_summary(loaded.outcome.value, now).action_count = 1

\* C15: from_json of an object gives an empty list for "actions" or
\* "findings" and an empty mapping for "context" when the member is absent,
\* the time of the call as start_time when "start_time" is absent, and for
\* every member that is present (start_time being a timestamp) the value
\* the member holds.
C15_AbsentKeysDefault ==
    (loaded.exists /\ IsObject(loaded.text)) =>
        LET members == loaded.text.members
            T == loaded.outcome.value
        IN  /\ loaded.outcome.raised = "none"
            /\ IF "actions" \in DOMAIN members
               THEN [i \in DOMAIN T.actions |-> dumps_action(T.actions[i])] = members["actions"]
               ELSE T.actions = <<>>
            /\ IF "findings" \in DOMAIN members
               THEN [i \in DOMAIN T.findings |-> dumps_finding(T.findings[i])] = members["findings"]
               ELSE T.findings = <<>>
            /\ IF "context" \in DOMAIN members
               THEN dumps_dict(T.context) = members["context"]
               ELSE T.context = EmptyDict
            /\ IF "start_time" \in DOMAIN members
               THEN isoformat(T.start_time) = members["start_time"]
               ELSE T.start_time = loaded.at

\* after the clock moved, an object holding an action and a context entry
\* but no "start_time" and no "findings" was loaded
C15_Witness ==
    /\ loaded.exists /\ IsObject(loaded.text)
    /\ DOMAIN loaded.text.members = {"actions", "context", "summary"}
    /\ Len(loaded.outcome.value.actions) = 1
    /\ loaded.outcome.value.context # EmptyDict
    /\ loaded.outcome.value.findings = <<>>
    /\ loaded.outcome.value.start_time = Instants[2]
    /\ scratchpad.start_time = Instants[1]

====
